---- MODULE Spec2Model ----
(***************************************************************************)
(* Verification model of the MNE enrichment pipeline (esastats/testouille).*)
(*                                                                         *)
(* The module holds one state machine per component:                       *)
(*   SpecMerge      extraction/utils.py   merge_extracted_infos            *)
(*   SpecExtraction common/data.py        generate_extraction_submission   *)
(*   SpecDiscovery  common/data.py        generate_discovery_submission    *)
(*   SpecExtract    extraction/{wikipedia,yahoo}.py  extract_*_infos       *)
(*   SpecSources    fetchers/{wikipedia,yahoo,official_register}.py        *)
(*   SpecSearch     common/websearch/*.py, AnnualReportFetcher._search     *)
(*   SpecReports    fetchers/annual_reports.py  async_fetch_for, cache     *)
(*   SpecClassify   nace_classifier/classifier.py  NACEClassifier.classify *)
(*   SpecFormat     fetchers/annual_reports.py  _format_urls               *)
(*   SpecDuckDuckGo common/websearch/duckduckgo.py  search, by attempt     *)
(*   SpecClaims     extraction/wikipedia.py  _get_claim_value (amount)     *)
(*   SpecMergeEntities  merge_extracted_infos on facts of several entities *)
(* Every specification starts the other components' variables at their     *)
(* idle values and never changes them.                                     *)
(***************************************************************************)
EXTENDS Integers, Sequences, FiniteSets, TLC

VARIABLES
    \* merge_extracted_infos
    sources,    \* the *sources argument, as iterated so far
    merged,     \* the dict `merged`, as the list of its values in key insertion order
    last,       \* the loop iteration just executed: the item and what was stored for its key
    mpc,        \* "loop" while iterating, "done" after the return
    mresult,    \* the returned list
    \* generate_extraction_submission
    mne_infos,  \* the argument: one fact-list per entity
    epc,        \* "input" | "done" | "raised"
    submission, \* the returned rows
    \* generate_discovery_submission
    disc_infos, \* the argument: one list of AnnualReport / OtherSources records per entity
    dpc,        \* "input" | "done" | "raised"
    discovery,  \* the returned rows
    \* WikipediaExtractor.extract_wikipedia_infos / YahooExtractor.extract_yahoo_infos
    extractor,  \* "wikipedia" | "yahoo"
    tasks,      \* outcome of each gathered sub-extraction
    page,       \* wikipedia: what fetch_wikipedia_page returned
    xpc,        \* "start" | "gather" | "assemble" | "done" | "raised"
    infos,      \* the list `infos` after the exception handling loop
    xresult,    \* the returned value
    \* WikipediaFetcher / YahooFetcher / OfficialRegisterFetcher
    ticker_cache,   \* self.ticker_cache of each YahooFetcher instance
    ticker_file,    \* content of cache/tickers_cache.json
    fetches,        \* the async_fetch_for calls made so far, with what each returned
    \* AnnualReportFetcher._search and the search providers
    provided,       \* what each searcher.search(query) gathered by _search ended with
    spc,            \* "gather" | "done" | "raised"
    found,          \* the list _search returned
    \* AnnualReportFetcher.async_fetch_for
    reports_cache,  \* self.reports_cache of each AnnualReportFetcher instance
    cache_file,     \* content of cache/reports_cache.json
    calls,          \* the async_fetch_for calls made so far: where each stands and what it returned
    \* NACEClassifier.classify
    docs,           \* the documents the similarity search returned, by their CODE
    cpc,            \* "retrieve" | "done" | "raised" | "llm_raised" | "search_raised"
    activity,       \* the Activity.code classify returned
    searches,       \* number of self.db.similarity_search calls classify made
    llm_calls,      \* number of chat.completions.parse calls classify made
    \* AnnualReportFetcher._format_urls / get_url_responses
    candidates,     \* the search results given to _format_urls, each with what its probe met
    fpc,            \* "input" | "done"
    list_urls,      \* the numbered items _format_urls put into the block
    url_responses,  \* the list get_url_responses returned to _format_urls
    \* DuckDuckGoSearch.search, attempt by attempt
    attempts,       \* the DDGS().text calls of one DuckDuckGoSearch.search: the User-Agent used and whether the call raised
    qpc,            \* "first" | "retry" | "done"
    ddg_results,    \* how the search(query) call ended
    \* WikipediaExtractor._get_claim_value (value_type amount)
    claims,         \* claims[prop]: the Wikidata claims of one amount-valued property
    kpc,            \* "input" | "done"
    claim_value     \* what _get_claim_value returned

mergeVars == <<sources, merged, last, mpc, mresult>>
extractionVars == <<mne_infos, epc, submission>>
discoveryVars == <<disc_infos, dpc, discovery>>
extractVars == <<extractor, tasks, page, xpc, infos, xresult>>
sourcesVars == <<ticker_cache, ticker_file, fetches>>
searchVars == <<provided, spc, found>>
reportVars == <<reports_cache, cache_file, calls>>
classifyVars == <<docs, cpc, activity, searches, llm_calls>>
formatVars == <<candidates, fpc, list_urls, url_responses>>
duckVars == <<attempts, qpc, ddg_results>>
claimVars == <<claims, kpc, claim_value>>
vars == <<mergeVars, extractionVars, discoveryVars, extractVars, sourcesVars, searchVars, reportVars, classifyVars, formatVars, duckVars, claimVars>>

(***************************************************************************)
(* Shared data model                                                       *)
(***************************************************************************)

\* Python None in an integer field (Optional[int]); the model's years are >= 0.
None == -1

\* The six canonical variables, in the order of the submission loop.
CanonicalVariables == <<"COUNTRY", "EMPLOYEES", "TURNOVER", "ASSETS", "WEBSITE", "ACTIVITY">>

RECURSIVE Flatten(_)
Flatten(ss) == IF ss = <<>> THEN <<>> ELSE Head(ss) \o Flatten(Tail(ss))

Range(s) == {s[i] : i \in 1..Len(s)}

SetMax(S) == CHOOSE x \in S : \A y \in S : y <= x

(***************************************************************************)
(* merge_extracted_infos (extraction/utils.py)                             *)
(***************************************************************************)

\* Bounds of the merge input: number of source lists, total number of facts.
MaxSources == 2
MaxFacts == 3

MergeVariables == {"COUNTRY", "TURNOVER"}
MergeYears == {None, 0, 2023, 2024}
MergeIds == {1}

\* Inputs whose facts belong to several entities: mne_id is a free field of
\* ExtractedInfo and the merge never reads it.
MergeEntityIds == {1, 2}
MergeEntityYears == {None, 2023, 2024}

\* An ExtractedInfo as the merge sees it. `value` stands for the payload the
\* merge never reads (value, source_url, currency): it is the ordinal of the
\* fact in the input, so any two input facts differ in it.
MergeFact(id, var, year, ord) ==
    [mne_id |-> id, variable |-> var, year |-> year, value |-> ord]

NoFact == [mne_id |-> 0, variable |-> "", year |-> None, value |-> 0]

\* A source list: None, or a (possibly empty) list of facts.
NoneSource == [isNone |-> TRUE, items |-> <<>>]
ListSource(items) == [isNone |-> FALSE, items |-> items]

\* `if not source: continue`
Falsy(source) == source.isNone \/ source.items = <<>>

\* All items of the sources, in iteration order.
InputFacts(srcs) == Flatten([i \in 1..Len(srcs) |-> srcs[i].items])

\* Position of `key` in the dict, 0 when `key not in merged`.
KeyIndex(m, key) ==
    IF \E i \in 1..Len(m) : m[i].variable = key
    THEN CHOOSE i \in 1..Len(m) : m[i].variable = key
    ELSE 0

Stored(m, key) == IF KeyIndex(m, key) = 0 THEN NoFact ELSE m[KeyIndex(m, key)]

\* Python truthiness of `item.year`
Truthy(year) == year # None /\ year # 0

ShouldReplace_GE(item, stored) ==
    Truthy(item.year) /\ (stored.year = None \/ item.year >= stored.year)

\* `item.year and (merged[key].year is None or item.year > merged[key].year)`
ShouldReplace(item, stored) ==
    Truthy(item.year) /\ (stored.year = None \/ item.year > stored.year)

MergeItem_Append(m, item) == Append(m, item)

MergeItem_ByEntity(m, item) ==
    LET same == {i \in 1..Len(m) : m[i].variable = item.variable /\ m[i].mne_id = item.mne_id} IN
    IF same = {} THEN Append(m, item)
    ELSE LET k == CHOOSE i \in same : TRUE IN
         IF ShouldReplace(item, m[k]) THEN [m EXCEPT ![k] = item] ELSE m

\* One iteration of the inner loop on `item`.
MergeItem(m, item) ==
    LET k == KeyIndex(m, item.variable) IN
    IF k = 0 THEN Append(m, item)
    ELSE IF ShouldReplace(item, m[k]) THEN [m EXCEPT ![k] = item]
    ELSE m

NumFacts == Len(InputFacts(sources))

\* The outer loop meets a None or empty source and continues.
SkipSource(isNone) ==
    /\ mpc = "loop"
    /\ Len(sources) < MaxSources
    /\ sources' = Append(sources, IF isNone THEN NoneSource ELSE ListSource(<<>>))
    /\ UNCHANGED <<merged, last, mpc, mresult>>

\* The outer loop enters a non-empty source: its first item is merged.
FirstItem(item) ==
    /\ mpc = "loop"
    /\ Len(sources) < MaxSources
    /\ NumFacts < MaxFacts
    /\ sources' = Append(sources, ListSource(<<item>>))
    /\ last' = [item |-> item, stored |-> Stored(merged, item.variable)]
    /\ merged' = MergeItem(merged, item)
    /\ UNCHANGED <<mpc, mresult>>

\* The inner loop reaches the next item of the current source.
NextItem(item) ==
    /\ mpc = "loop"
    /\ sources # <<>>
    /\ ~Falsy(sources[Len(sources)])
    /\ NumFacts < MaxFacts
    /\ sources' = [sources EXCEPT ![Len(sources)] =
                      ListSource(Append(sources[Len(sources)].items, item))]
    /\ last' = [item |-> item, stored |-> Stored(merged, item.variable)]
    /\ merged' = MergeItem(merged, item)
    /\ UNCHANGED <<mpc, mresult>>

\* `return list(merged.values())`
MergeReturn ==
    /\ mpc = "loop"
    /\ mpc' = "done"
    /\ mresult' = merged
    /\ UNCHANGED <<sources, merged, last>>

(***************************************************************************)
(* generate_extraction_submission (common/data.py)                         *)
(***************************************************************************)

\* Bounds of the submission input: number of entities, total number of facts.
MaxEntities == 2
MaxInfos == 3

\* Python/pandas null in a string column.
NA == "<NA>"

\* NAME of the entity with a given ID (an entity is unique by id).
Names == <<"ACME", "BOLT", "CYAN", "DUNE">>
MneName(id) == Names[id]

\* Variables of the input facts: two canonical ones and one that is not canonical.
InputVariables == {"COUNTRY", "TURNOVER", "Country"}
InputYears == {None, 2024}

\* ExtractedInfo.model_dump() renamed to the submission's columns (Variable is
\* the column VARIABLE, a reserved word here). The ordinal
\* `ord` of the fact in the input stands for its source_url and its value.
ExtractedRow(id, var, year, ord) ==
    [ID |-> id, NAME |-> MneName(id), Variable |-> var, SRC |-> ord,
     VALUE |-> ord, CURRENCY |-> "N/A", REFYEAR |-> year]

\* The row of a variable the entity has no fact for.
EmptyRow(id, var) ==
    [ID |-> id, NAME |-> MneName(id), Variable |-> var, SRC |-> None,
     VALUE |-> None, CURRENCY |-> NA, REFYEAR |-> None]

\* The flattened input: `for infos in mne_infos for info in infos`.
ExtractionFrame(input) == Flatten([i \in 1..Len(input) |-> input[i].infos])

\* The ids in ascending order (groupby sorts its keys).
RECURSIVE SortedIds(_)
SortedIds(S) ==
    IF S = {} THEN <<>>
    ELSE LET m == CHOOSE x \in S : \A y \in S : x <= y
         IN <<m>> \o SortedIds(S \ {m})

GroupRow_Last(group, id, var) ==
    LET match == SelectSeq(group, LAMBDA r : r.Variable = var) IN
    IF match # <<>> THEN match[Len(match)] ELSE EmptyRow(id, var)

\* The row of one canonical variable of one group: the first matching row,
\* or the empty row.
GroupRow(group, id, var) ==
    LET match == SelectSeq(group, LAMBDA r : r.Variable = var) IN
    IF match # <<>> THEN match[1] ELSE EmptyRow(id, var)

\* `submission.loc[submission["SRC"].isna(), "REFYEAR"] = pd.NA`
NullYearWithoutSrc(row) ==
    IF row.SRC = None THEN [row EXCEPT !.REFYEAR = None] ELSE row

\* The loop over the groups of (ID, NAME) and over the canonical variables.
CompleteRows(frame) ==
    LET ids == SortedIds({frame[i].ID : i \in 1..Len(frame)})
        group(id) == SelectSeq(frame, LAMBDA r : r.ID = id)
        rows(id) == [v \in 1..Len(CanonicalVariables) |->
                        GroupRow(group(id), id, CanonicalVariables[v])]
    IN Flatten([g \in 1..Len(ids) |-> rows(ids[g])])

\* The returned DataFrame.
ExtractionSubmission(input) ==
    LET rows == CompleteRows(ExtractionFrame(input))
    IN [i \in 1..Len(rows) |-> NullYearWithoutSrc(rows[i])]

NumInfos == Len(ExtractionFrame(mne_infos))
EntityIds(input) == {input[i].mne : i \in 1..Len(input)}

\* The caller adds the (so far empty) fact-list of one more entity.
AddEntity(id) ==
    /\ epc = "input"
    /\ Len(mne_infos) < MaxEntities
    /\ id \notin EntityIds(mne_infos)
    /\ mne_infos' = Append(mne_infos, [mne |-> id, infos |-> <<>>])
    /\ UNCHANGED <<epc, submission>>

\* The caller adds a fact to the fact-list of the last entity.
AddInfo(var, year) ==
    /\ epc = "input"
    /\ mne_infos # <<>>
    /\ NumInfos < MaxInfos
    /\ LET n == Len(mne_infos)
           row == ExtractedRow(mne_infos[n].mne, var, year, NumInfos + 1)
       IN mne_infos' = [mne_infos EXCEPT ![n].infos = Append(@, row)]
    /\ UNCHANGED <<epc, submission>>

\* generate_extraction_submission(mne_infos). With no fact at all the frame
\* has no columns and groupby(["ID", "NAME"]) raises KeyError.
GenerateExtraction ==
    /\ epc = "input"
    /\ IF ExtractionFrame(mne_infos) = <<>>
       THEN epc' = "raised" /\ submission' = <<>>
       ELSE epc' = "done" /\ submission' = ExtractionSubmission(mne_infos)
    /\ UNCHANGED mne_infos

(***************************************************************************)
(* generate_discovery_submission (common/data.py)                          *)
(***************************************************************************)

\* Bound of the discovery input: total number of OtherSources citations.
MaxCitations == 6

ReportUrls == {None, 100}
ReportYears == {None, 2023}

\* AnnualReport and OtherSources records (model_dump), with the fields the
\* submission reads; `url` is pdf_url for a report.
AnnualReport(id, pdf_url, year) ==
    [kind |-> "AnnualReport", mne_id |-> id, mne_name |-> MneName(id),
     url |-> pdf_url, year |-> year]

\* The url of a citation is its ordinal among the citations of the input.
OtherSources(id, ord) ==
    [kind |-> "OtherSources", mne_id |-> id, mne_name |-> MneName(id),
     url |-> ord, year |-> 2024]

\* `for sources in mne_infos for src in sources`
DiscoveryFrame(input) == Flatten([i \in 1..Len(input) |-> input[i].sources])

\* fin_rep: the AnnualReport records as FIN_REP rows.
FinRep(frame) ==
    LET reports == SelectSeq(frame, LAMBDA r : r.kind = "AnnualReport")
    IN [i \in 1..Len(reports) |->
          [ID |-> reports[i].mne_id, NAME |-> reports[i].mne_name, TYPE |-> "FIN_REP",
           SRC |-> reports[i].url, REFYEAR |-> reports[i].year]]

\* other_src before padding: the OtherSources records as OTHER rows (no REFYEAR yet).
OtherSrc(frame) ==
    LET others == SelectSeq(frame, LAMBDA r : r.kind = "OtherSources")
    IN [i \in 1..Len(others) |->
          [ID |-> others[i].mne_id, NAME |-> others[i].mne_name, TYPE |-> "OTHER",
           SRC |-> others[i].url, REFYEAR |-> None]]

\* pad_to_five on the SRC column of one group.
PadToFive(group) ==
    IF 5 - Len(group) > 0
    THEN group \o [i \in 1..(5 - Len(group)) |-> None]
    ELSE group

\* groupby(["ID", "NAME", "TYPE"]).apply(pad_to_five ... assign(ID, NAME, TYPE))
PaddedOther(other) ==
    LET ids == SortedIds({other[i].ID : i \in 1..Len(other)})
        group(id) == SelectSeq(other, LAMBDA r : r.ID = id)
        srcs(id) == PadToFive([i \in 1..Len(group(id)) |-> group(id)[i].SRC])
        rows(id) == [i \in 1..Len(srcs(id)) |->
                        [ID |-> id, NAME |-> group(id)[1].NAME, TYPE |-> group(id)[1].TYPE,
                         SRC |-> srcs(id)[i], REFYEAR |-> None]]
    IN Flatten([g \in 1..Len(ids) |-> rows(ids[g])])

MergeRight_Outer(padded, fin) ==
    LET rows(f) ==
          LET match == SelectSeq(padded, LAMBDA r : r.ID = f.ID)
          IN IF match # <<>>
             THEN [i \in 1..Len(match) |-> [match[i] EXCEPT !.REFYEAR = f.REFYEAR]]
             ELSE <<[ID |-> f.ID, NAME |-> NA, TYPE |-> NA, SRC |-> None,
                     REFYEAR |-> f.REFYEAR]>>
    IN Flatten([i \in 1..Len(fin) |-> rows(fin[i])])
       \o SelectSeq(padded, LAMBDA r : \A i \in 1..Len(fin) : fin[i].ID # r.ID)

\* .merge(fin_rep[["ID", "REFYEAR"]], on="ID", how="right"): for every FIN_REP
\* row, in order, the padded rows of its ID with its REFYEAR, or one row of
\* nulls when there is none.
MergeRight(padded, fin) ==
    LET rows(f) ==
          LET match == SelectSeq(padded, LAMBDA r : r.ID = f.ID)
          IN IF match # <<>>
             THEN [i \in 1..Len(match) |-> [match[i] EXCEPT !.REFYEAR = f.REFYEAR]]
             ELSE <<[ID |-> f.ID, NAME |-> NA, TYPE |-> NA, SRC |-> None,
                     REFYEAR |-> f.REFYEAR]>>
    IN Flatten([i \in 1..Len(fin) |-> rows(fin[i])])

\* sort_values(by=["ID", "TYPE"]): FIN_REP before OTHER, a null TYPE last.
SortByIdType(rows) ==
    LET ids == SortedIds({rows[i].ID : i \in 1..Len(rows)})
        of(id, type) == SelectSeq(rows, LAMBDA r : r.ID = id /\ r.TYPE = type)
    IN Flatten([g \in 1..Len(ids) |->
                  of(ids[g], "FIN_REP") \o of(ids[g], "OTHER") \o of(ids[g], NA)])

\* The returned DataFrame.
DiscoverySubmission(input) ==
    LET frame == DiscoveryFrame(input)
        fin == FinRep(frame)
        joined == MergeRight(PaddedOther(OtherSrc(frame)), fin)
        other == [i \in 1..Len(joined) |-> NullYearWithoutSrc(joined[i])]
    IN SortByIdType(fin \o other)

NumCitations == Len(OtherSrc(DiscoveryFrame(disc_infos)))

\* The caller adds the list of one more entity, without an AnnualReport.
AddMne(id) ==
    /\ dpc = "input"
    /\ Len(disc_infos) < MaxEntities
    /\ id \notin EntityIds(disc_infos)
    /\ disc_infos' = Append(disc_infos, [mne |-> id, sources |-> <<>>])
    /\ UNCHANGED <<dpc, discovery>>

\* The caller adds the list of one more entity, holding its AnnualReport.
AddMneWithReport(id, pdf_url, year) ==
    /\ dpc = "input"
    /\ Len(disc_infos) < MaxEntities
    /\ id \notin EntityIds(disc_infos)
    /\ disc_infos' = Append(disc_infos,
                            [mne |-> id, sources |-> <<AnnualReport(id, pdf_url, year)>>])
    /\ UNCHANGED <<dpc, discovery>>

\* The caller adds an OtherSources citation to the list of the last entity.
AddCitation ==
    /\ dpc = "input"
    /\ disc_infos # <<>>
    /\ NumCitations < MaxCitations
    /\ LET n == Len(disc_infos)
       IN disc_infos' = [disc_infos EXCEPT ![n].sources =
                            Append(@, OtherSources(disc_infos[n].mne, NumCitations + 1))]
    /\ UNCHANGED <<dpc, discovery>>

\* generate_discovery_submission(mne_infos). With no AnnualReport at all, or
\* no OtherSources at all, the frame has no columns and selecting
\* ["ID", "NAME", "TYPE", "SRC", ...] raises KeyError.
GenerateDiscovery ==
    /\ dpc = "input"
    /\ IF FinRep(DiscoveryFrame(disc_infos)) = <<>> \/ OtherSrc(DiscoveryFrame(disc_infos)) = <<>>
       THEN dpc' = "raised" /\ discovery' = <<>>
       ELSE dpc' = "done" /\ discovery' = DiscoverySubmission(disc_infos)
    /\ UNCHANGED disc_infos

(***************************************************************************)
(* extract_wikipedia_infos / extract_yahoo_infos                           *)
(***************************************************************************)

\* Python None in a string field.
NoneStr == "None"

\* A value that ExtractedInfo (value: str | int) rejects, such as a float NaN
\* of a financial statement or a Wikidata value that is not a string.
Invalid == "invalid"

\* The gathered coroutines, in the order of the `tasks` list.
WikipediaTasks == <<"country", "website", "employees", "turnover", "assets", "activity">>
YahooTasks == <<"year", "country", "website", "employees", "turnover", "assets",
                "currency", "activity">>
TaskNames(ext) == IF ext = "wikipedia" THEN WikipediaTasks ELSE YahooTasks

TaskIndex(ext, name) == CHOOSE i \in 1..Len(TaskNames(ext)) : TaskNames(ext)[i] = name

\* What a coroutine hands to gather: an exception, a scalar (value) or, for a
\* Wikidata amount, the tuple (value, year, currency).
RaisedOutcome ==
    [raised |-> TRUE, tuple |-> FALSE, value |-> NoneStr, year |-> None, currency |-> NoneStr]
Scalar(v) ==
    [raised |-> FALSE, tuple |-> FALSE, value |-> v, year |-> None, currency |-> NoneStr]
YearScalar(y) ==
    [raised |-> FALSE, tuple |-> FALSE, value |-> NoneStr, year |-> y, currency |-> NoneStr]
Triple(v, y, c) ==
    [raised |-> FALSE, tuple |-> TRUE, value |-> v, year |-> y, currency |-> c]

\* _get_claim_value(..., "amount"): (None, None, None) on a caught error, else
\* the amount of the latest claim with its year (None when no claim is dated).
AmountOutcomes(c) ==
    {RaisedOutcome, Triple(NoneStr, None, NoneStr), Triple("amount", None, c),
     Triple("amount", 2023, c)}

\* The outcomes of each sub-extraction.
TaskOutcomes(ext, name) ==
    IF ext = "wikipedia" THEN
        CASE name = "country"   -> {RaisedOutcome, Scalar(NoneStr), Scalar("FR")}
          [] name = "website"   -> {Scalar(NoneStr), Scalar("site"), Scalar(Invalid)}
          [] name = "employees" -> AmountOutcomes("N/A")
          [] name = "turnover"  -> AmountOutcomes("EUR")
          [] name = "assets"    -> AmountOutcomes("EUR")
          [] name = "activity"  -> {RaisedOutcome, Scalar("summary")}
    ELSE
        CASE name = "year"      -> {RaisedOutcome, YearScalar(None), YearScalar(2024)}
          [] name = "country"   -> {RaisedOutcome, Scalar(NoneStr), Scalar("FR")}
          [] name = "website"   -> {RaisedOutcome, Scalar(NoneStr), Scalar("site")}
          [] name = "employees" -> {RaisedOutcome, Scalar(NoneStr), Scalar("staff")}
          [] name = "turnover"  -> {RaisedOutcome, Scalar(NoneStr), Scalar("revenue"), Scalar(Invalid)}
          [] name = "assets"    -> {RaisedOutcome, Scalar(NoneStr), Scalar("assets"), Scalar(Invalid)}
          [] name = "currency"  -> {RaisedOutcome, Scalar(NoneStr), Scalar("USD")}
          [] name = "activity"  -> {RaisedOutcome, Scalar("Sector: ...")}

\* Every outcome of some sub-extraction.
AllOutcomes ==
    UNION {UNION {TaskOutcomes(ext, TaskNames(ext)[i]) : i \in 1..Len(TaskNames(ext))} :
             ext \in {"wikipedia", "yahoo"}}

GatheredInfo_AlwaysNone(ext, idx, outcome) ==
    IF outcome.raised THEN Scalar(NoneStr) ELSE outcome

\* The loop over the gathered results: an exception becomes None, or
\* (None, None, None) for the Wikidata amounts (idx not in [0, 1, 5]).
GatheredInfo(ext, idx, outcome) ==
    IF outcome.raised
    THEN IF ext = "wikipedia" /\ idx \notin {0, 1, 5}
         THEN Triple(NoneStr, None, NoneStr)
         ELSE Scalar(NoneStr)
    ELSE outcome

HandleResults(ext, results) ==
    [i \in 1..Len(results) |-> GatheredInfo(ext, i - 1, results[i])]

Info(ext, xs, name) == xs[TaskIndex(ext, name)]

\* TRUE when building the `variables` list raises: a subscript on a value
\* that is no tuple (employees[0] with employees = None).
VariablesRaise(ext, xs) ==
    /\ ext = "wikipedia"
    /\ \E name \in {"employees", "turnover", "assets"} : ~Info(ext, xs, name).tuple

\* The `variables` list: (variable, value, year, currency, page).
VariablesList(ext, xs) ==
    IF ext = "wikipedia" THEN
        <<[variable |-> "COUNTRY", value |-> Info(ext, xs, "country").value,
           year |-> 2024, currency |-> "N/A", page |-> "wikipedia"],
          [variable |-> "EMPLOYEES", value |-> Info(ext, xs, "employees").value,
           year |-> Info(ext, xs, "employees").year,
           currency |-> Info(ext, xs, "employees").currency, page |-> "wikipedia"],
          [variable |-> "TURNOVER", value |-> Info(ext, xs, "turnover").value,
           year |-> Info(ext, xs, "turnover").year,
           currency |-> Info(ext, xs, "turnover").currency, page |-> "wikipedia"],
          [variable |-> "ASSETS", value |-> Info(ext, xs, "assets").value,
           year |-> Info(ext, xs, "assets").year,
           currency |-> Info(ext, xs, "assets").currency, page |-> "wikipedia"],
          [variable |-> "WEBSITE", value |-> Info(ext, xs, "website").value,
           year |-> 2024, currency |-> "N/A", page |-> "wikipedia"],
          [variable |-> "ACTIVITY", value |-> Info(ext, xs, "activity").value,
           year |-> 2024, currency |-> "N/A", page |-> "wikipedia"]>>
    ELSE
        LET year == Info(ext, xs, "year").year
            currency == Info(ext, xs, "currency").value
        IN
        <<[variable |-> "COUNTRY", value |-> Info(ext, xs, "country").value,
           year |-> year, currency |-> "N/A", page |-> "profile"],
          [variable |-> "EMPLOYEES", value |-> Info(ext, xs, "employees").value,
           year |-> year, currency |-> "N/A", page |-> "profile"],
          [variable |-> "TURNOVER", value |-> Info(ext, xs, "turnover").value,
           year |-> year, currency |-> currency, page |-> "financials"],
          [variable |-> "ASSETS", value |-> Info(ext, xs, "assets").value,
           year |-> year, currency |-> currency, page |-> "balance-sheet"],
          [variable |-> "WEBSITE", value |-> Info(ext, xs, "website").value,
           year |-> year, currency |-> "N/A", page |-> "profile"],
          [variable |-> "ACTIVITY", value |-> Info(ext, xs, "activity").value,
           year |-> year, currency |-> "N/A", page |-> "profile"]>>

KeepVariable_ValueOnly(ext, v) == v.value # NoneStr

\* The filter of the list comprehension: `if val is not None and year is not
\* None` (Wikipedia), `if val is not None` (Yahoo).
KeepVariable(ext, v) ==
    IF ext = "wikipedia" THEN v.value # NoneStr /\ v.year # None
    ELSE v.value # NoneStr

\* The returned value: None, or a non-empty list of facts.
NoneResult == [isNone |-> TRUE, facts |-> <<>>]
ListResult(facts) == [isNone |-> FALSE, facts |-> facts]

\* The list comprehension and the return. ExtractedInfo(...) raises on a value
\* it rejects; any exception inside the try ends in `return None`.
BuildResult(ext, xs) ==
    IF VariablesRaise(ext, xs) THEN NoneResult
    ELSE LET kept == SelectSeq(VariablesList(ext, xs), LAMBDA v : KeepVariable(ext, v))
         IN IF \E i \in 1..Len(kept) : kept[i].value = Invalid THEN NoneResult
            ELSE IF kept = <<>> THEN NoneResult
            ELSE ListResult([i \in 1..Len(kept) |->
                    [variable |-> kept[i].variable, value |-> kept[i].value,
                     year |-> kept[i].year, currency |-> kept[i].currency,
                     source_url |-> kept[i].page]])

\* The try block as a whole: an exception of fetch_wikipedia_page, like any
\* exception of the record construction, ends in `return None`.
TryResult(ext, xs, fetched) ==
    IF ext = "wikipedia" /\ fetched = "raised" THEN NoneResult ELSE BuildResult(ext, xs)

\* `if not qid: return None` / `if not yahoo_symbol: return None`
ReturnWithoutId ==
    /\ xpc = "start"
    /\ xpc' = "done"
    /\ xresult' = NoneResult
    /\ UNCHANGED <<extractor, tasks, page, infos>>

\* Wikipedia: a call made before the try block (wikipedia.page, the page
\* properties, the claims) raises, and the exception leaves the method.
RaiseBeforeTry ==
    /\ xpc = "start"
    /\ extractor = "wikipedia"
    /\ xpc' = "raised"
    /\ UNCHANGED <<extractor, tasks, page, infos, xresult>>

\* The identifier is resolved: the sub-extractions are gathered.
EnterTry ==
    /\ xpc = "start"
    /\ xpc' = "gather"
    /\ UNCHANGED <<extractor, tasks, page, infos, xresult>>

\* One gathered coroutine ends, with a result or with an exception.
RunTask(outcome) ==
    /\ xpc = "gather"
    /\ Len(tasks) < Len(TaskNames(extractor))
    /\ outcome \in TaskOutcomes(extractor, TaskNames(extractor)[Len(tasks) + 1])
    /\ tasks' = Append(tasks, outcome)
    /\ UNCHANGED <<extractor, page, xpc, infos, xresult>>

\* gather(..., return_exceptions=True) has returned: the exceptions are
\* replaced and the `variables` list is built.
HandleExceptions ==
    /\ xpc = "gather"
    /\ Len(tasks) = Len(TaskNames(extractor))
    /\ infos' = HandleResults(extractor, tasks)
    /\ IF VariablesRaise(extractor, infos')
       THEN xpc' = "done" /\ xresult' = TryResult(extractor, infos', page)
       ELSE xpc' = "assemble" /\ UNCHANGED xresult
    /\ UNCHANGED <<extractor, tasks, page>>

\* Wikipedia: `source_url = await self.fetcher.fetch_wikipedia_page(mne)`
\* returns the page citation, or raises into the enclosing except.
FetchPage(ok) ==
    /\ xpc = "assemble"
    /\ extractor = "wikipedia"
    /\ page = "none"
    /\ IF ok
       THEN page' = "ok" /\ UNCHANGED <<xpc, xresult>>
       ELSE /\ page' = "raised" /\ xpc' = "done"
            /\ xresult' = TryResult(extractor, infos, "raised")
    /\ UNCHANGED <<extractor, tasks, infos>>

\* The facts are built and returned.
ReturnResults ==
    /\ xpc = "assemble"
    /\ extractor = "wikipedia" => page = "ok"
    /\ xpc' = "done"
    /\ xresult' = TryResult(extractor, infos, page)
    /\ UNCHANGED <<extractor, tasks, page, infos>>

(***************************************************************************)
(* Source fetchers (fetchers/wikipedia.py, fetchers/yahoo.py,              *)
(* fetchers/official_register.py, fetchers/official_registers/france.py)   *)
(***************************************************************************)

\* Bound: number of async_fetch_for calls on the source fetchers.
MaxFetches == 2

\* The YahooFetcher instances; they share the file cache/tickers_cache.json.
YahooFetchers == {1, 2}
FetchIds == {1, 2}
Tickers == {"AAA"}
Countries == {"FR", "DE"}

\* The argument mne: {"ID": ..., "NAME": ...}.
Mne(id) == [ID |-> id, NAME |-> MneName(id)]

\* A Python dict is a function on its keys; {} is the function on no key.
EmptyDict == <<>>

\* d[k] = v
SetItem(d, k, v) == [n \in DOMAIN d \cup {k} |-> IF n = k THEN v ELSE d[n]]

\* A cache file: its JSON content, and whether it can be read as JSON; no
\* file yet is the readable file holding {}.
CacheFile(data) == [readable |-> TRUE, data |-> data]

\* A cache file left by a write that failed midway: not a JSON document.
Corrupt == [readable |-> FALSE, data |-> EmptyDict]

\* _load_cache: the content of the file, {} when it cannot be read or does not exist.
LoadCache(file) == IF file.readable THEN file.data ELSE EmptyDict

\* What a write of the cache file can do: succeed, fail in open(), fail in json.dump()
\* after open() truncated the file.
WriteOutcomes == {"written", "open_failed", "dump_failed"}

\* _save_cache: the file after the call; the exception of a failed write is
\* logged and not re-raised, so the call always returns normally.
SaveCache(file, cache, outcome) ==
    CASE outcome = "written" -> CacheFile(cache)
      [] outcome = "open_failed" -> file
      [] outcome = "dump_failed" -> Corrupt

\* An OtherSources record built by a fetcher.
FetchedSource(mne, source_name, url) ==
    [kind |-> "OtherSources", mne_id |-> mne.ID, mne_name |-> mne.NAME,
     source_name |-> source_name, url |-> url, year |-> 2024]

\* How a call ends: `exc` is the exception that propagates out of it (NoneStr when
\* it returns), `sources` the returned citations (<<>> is None), `ticker` the
\* returned ticker (YahooFetcher only).
Returns(srcs, ticker) == [exc |-> NoneStr, sources |-> srcs, ticker |-> ticker]
Raises(exc) == [exc |-> exc, sources |-> <<>>, ticker |-> NoneStr]

\* wikipedia.search: network error, no hit, a title.  wikipedia.page: error
\* (network, PageError, DisambiguationError), a page.
WikipediaSearchOutcomes == {"error", "empty", "found"}
WikipediaPageOutcomes == {"error", "ok"}

\* WikipediaFetcher.fetch_wikipedia_page; there is no try block around the calls.
FetchWikipediaPage(mne, search, pg) ==
    CASE search = "error" -> Raises("WikipediaException")
      [] search = "empty" -> Raises("IndexError")
      [] pg = "error" -> Raises("WikipediaException")
      [] OTHER -> Returns(<<FetchedSource(mne, "Wikipedia", "wikipedia")>>, NoneStr)

\* The symbol search of get_yahoo_ticker: requests.get raises, status is not 200,
\* the body is not JSON, no quote matches, or the symbol of the first match.
TickerOutcomes == {"error", "status", "json", "nomatch"} \cup Tickers

\* YahooFetcher.get_yahoo_ticker: how it ends and whether it stores the ticker.
GetYahooTicker(cache, name, outcome) ==
    IF name \in DOMAIN cache
    THEN [exc |-> NoneStr, ticker |-> cache[name], store |-> FALSE]
    ELSE CASE outcome = "error" -> [exc |-> "ConnectionError", ticker |-> NoneStr, store |-> FALSE]
           [] outcome = "status" -> [exc |-> NoneStr, ticker |-> NoneStr, store |-> FALSE]
           [] outcome = "json" -> [exc |-> "ValueError", ticker |-> NoneStr, store |-> FALSE]
           [] outcome = "nomatch" -> [exc |-> NoneStr, ticker |-> NoneStr, store |-> FALSE]
           [] OTHER -> [exc |-> NoneStr, ticker |-> outcome, store |-> TRUE]

\* The probes of fetch_yahoo_page: requests.head raises, the ticker has no
\* financials (columns[0] raises IndexError), the profile status is not 200, or all good.
YahooPageOutcomes == {"error", "nofinancials", "status", "ok"}

\* YahooFetcher.fetch_yahoo_page
FetchYahooPage(mne, ticker, outcome) ==
    CASE ticker = NoneStr -> Returns(<<>>, ticker)
      [] outcome = "error" -> Raises("ConnectionError")
      [] outcome = "nofinancials" -> Raises("IndexError")
      [] outcome = "status" -> Returns(<<>>, ticker)
      [] OTHER -> Returns(<<FetchedSource(mne, "Yahoo", "profile"),
                            FetchedSource(mne, "Yahoo", "financials"),
                            FetchedSource(mne, "Yahoo", "balance-sheet")>>, ticker)

\* The calls of AnnuaireEntrepriseFetcher.fetch_page: requests.get raises, status is
\* not 200, the body is not JSON (a ValueError), no result, requests.head raises,
\* the page status is not 200, or all good.
RegisterOutcomes == {"error", "status", "json", "empty", "head_error", "head_status", "ok"}

\* AnnuaireEntrepriseFetcher.fetch_page
AnnuaireFetchPage(mne, outcome) ==
    CASE outcome \in {"error", "head_error"} -> Raises("ConnectionError")
      [] outcome = "json" -> Raises("ValueError")
      [] outcome \in {"status", "empty", "head_status"} -> Returns(<<>>, NoneStr)
      [] OTHER -> Returns(<<FetchedSource(mne, "Annuaire Entreprise", "annuaire")>>, NoneStr)

\* OfficialRegisterFetcher.async_fetch_for: a ValueError (no fetcher for the
\* country, or one raised inside the fetcher) becomes None.
RegisterFetch(mne, country, outcome) ==
    LET r == IF country # "FR" THEN Raises("ValueError") ELSE AnnuaireFetchPage(mne, outcome)
    IN IF r.exc = "ValueError" THEN Returns(<<>>, NoneStr) ELSE r

\* A YahooFetcher is constructed: its cache is what the file holds.
NewYahooFetcher(i) ==
    /\ ticker_cache' = [ticker_cache EXCEPT ![i] = LoadCache(ticker_file)]
    /\ UNCHANGED <<ticker_file, fetches>>

\* WikipediaFetcher.async_fetch_for
WikipediaFetchFor(id, search, pg) ==
    /\ Len(fetches) < MaxFetches
    /\ fetches' = Append(fetches, [fetcher |-> "wikipedia", mne |-> id,
                                   result |-> FetchWikipediaPage(Mne(id), search, pg)])
    /\ UNCHANGED <<ticker_cache, ticker_file>>

\* YahooFetcher.async_fetch_for; nothing in it suspends, so the call is one step.
YahooFetchFor(i, id, symbol, written, pg) ==
    LET mne == Mne(id)
        t == GetYahooTicker(ticker_cache[i], mne.NAME, symbol)
        cache == IF t.store THEN SetItem(ticker_cache[i], mne.NAME, t.ticker)
                 ELSE ticker_cache[i]
    IN /\ Len(fetches) < MaxFetches
       \* an outcome the call does not reach is not enumerated
       /\ ~t.store => written = "written"
       /\ t.ticker = NoneStr => pg = "ok"
       /\ mne.NAME \in DOMAIN ticker_cache[i] => symbol = "nomatch"
       /\ ticker_cache' = [ticker_cache EXCEPT ![i] = cache]
       /\ ticker_file' = IF t.store THEN SaveCache(ticker_file, cache, written)
                         ELSE ticker_file
       /\ fetches' = Append(fetches,
              [fetcher |-> "yahoo", mne |-> id,
               result |-> IF t.exc # NoneStr THEN Raises(t.exc)
                          ELSE FetchYahooPage(mne, t.ticker, pg)])

\* OfficialRegisterFetcher.async_fetch_for
OfficialRegisterFetchFor(id, country, outcome) ==
    /\ Len(fetches) < MaxFetches
    /\ fetches' = Append(fetches, [fetcher |-> "register", mne |-> id,
                                   result |-> RegisterFetch(Mne(id), country, outcome)])
    /\ UNCHANGED <<ticker_cache, ticker_file>>

(***************************************************************************)
(* Search providers and AnnualReportFetcher._search                        *)
(* (common/websearch/duckduckgo.py, common/websearch/google.py,            *)
(* fetchers/annual_reports.py)                                             *)
(***************************************************************************)

\* Bounds: number of configured searchers, number of raw results of a backend.
MaxProviders == 2
MaxResults == 2

\* The url of a raw result: two valid URLs and one that HttpUrl rejects.
SearchUrls == {"a", "b"}
RawUrls == SearchUrls \cup {"bad"}
RawResults == UNION {[1..n -> RawUrls] : n \in 0..MaxResults}

\* SearchResult(url, title, description); the title tells which raw result of
\* which searcher the record was built from.
SearchResult(url, k, i) == [url |-> url, title |-> 10 * k + i]

\* How searcher.search(query) ends: with a list, or with an exception.
SearchReturns(items) == [exc |-> NoneStr, items |-> items]
SearchRaises(exc) == [exc |-> exc, items |-> <<>>]

\* DuckDuckGoSearch.search as searcher number k: both attempts failing gives [],
\* and the records are built outside any try block.
DuckDuckGo(k, firstFails, retryFails, raw) ==
    IF firstFails /\ retryFails THEN SearchReturns(<<>>)
    ELSE IF \E i \in 1..Len(raw) : raw[i] \notin SearchUrls
         THEN SearchRaises("ValidationError")
         ELSE SearchReturns([i \in 1..Len(raw) |-> SearchResult(raw[i], k, i)])

\* The loop of GoogleSearch.search: a result whose URL is invalid is skipped.
RECURSIVE GoogleResults(_, _, _)
GoogleResults(k, raw, n) ==
    IF n = 0 THEN <<>>
    ELSE IF raw[n] \in SearchUrls
         THEN Append(GoogleResults(k, raw, n - 1), SearchResult(raw[n], k, n))
         ELSE GoogleResults(k, raw, n - 1)

\* GoogleSearch.search as searcher number k: google_search is called outside any
\* try block.
Google(k, fails, raw) ==
    IF fails THEN SearchRaises("HTTPError")
    ELSE SearchReturns(GoogleResults(k, raw, Len(raw)))

\* {item.url: item for ... in items}.values(): a key keeps the position of its
\* first insertion and takes the value of its last.
RECURSIVE UrlDict(_)
UrlDict(items) ==
    IF items = <<>> THEN <<>>
    ELSE LET d == UrlDict(SubSeq(items, 1, Len(items) - 1))
             item == items[Len(items)]
         IN IF \E j \in 1..Len(d) : d[j].url = item.url
            THEN [j \in 1..Len(d) |-> IF d[j].url = item.url THEN item ELSE d[j]]
            ELSE Append(d, item)

\* One searcher of self.searchers is a DuckDuckGoSearch: its search(query).
DuckDuckGoSearch(firstFails, retryFails, raw) ==
    /\ spc = "gather"
    /\ Len(provided) < MaxProviders
    /\ provided' = Append(provided, DuckDuckGo(Len(provided) + 1, firstFails, retryFails, raw))
    /\ UNCHANGED <<spc, found>>

\* One searcher of self.searchers is a GoogleSearch: its search(query).
GoogleSearch(fails, raw) ==
    /\ spc = "gather"
    /\ Len(provided) < MaxProviders
    /\ provided' = Append(provided, Google(Len(provided) + 1, fails, raw))
    /\ UNCHANGED <<spc, found>>

\* The end of _search: gather(return_exceptions=True) hands back the exception of
\* a failed searcher in place of its list, and the comprehension iterates every
\* entry: an exception object is not iterable (TypeError).
Search ==
    /\ spc = "gather"
    /\ Len(provided) >= 1
    /\ IF \E k \in 1..Len(provided) : provided[k].exc # NoneStr
       THEN spc' = "raised" /\ found' = <<>>
       ELSE /\ spc' = "done"
            /\ found' = UrlDict(Flatten([k \in 1..Len(provided) |-> provided[k].items]))
    /\ UNCHANGED provided

(***************************************************************************)
(* AnnualReportFetcher.async_fetch_for and its cache                       *)
(* (fetchers/annual_reports.py)                                            *)
(***************************************************************************)

\* Bound: number of async_fetch_for calls (of one batch or of several).
MaxCalls == 2

\* The AnnualReportFetcher instances; they share the file cache/reports_cache.json.
ReportFetchers == {1, 2}

\* What the awaited self._search(web_query) can do: raise (a searcher failed),
\* return [], return candidates.
SearchOutcomes == {"raised", "empty", "results"}

\* What the awaited LLM call can do: raise, or answer with an AnnualReport
\* whose pdf_url and year are any values of the schema.
LlmYears == {None, 2023, 2024, 2025}
LlmAnswers == {[error |-> TRUE, pdf_url |-> None, year |-> None]}
              \cup {[error |-> FALSE, pdf_url |-> None, year |-> 2024]}
              \cup {[error |-> FALSE, pdf_url |-> 100, year |-> y] : y \in LlmYears}

\* The Optional[AnnualReport] a call returns, or the exception that leaves it.
ReportReturns(reports) == [exc |-> NoneStr, report |-> reports]
ReportRaises(exc) == [exc |-> exc, report |-> <<>>]

\* `mne["NAME"] in self.reports_cache`
CacheHit_Never(cache, name) == FALSE

CacheHit(cache, name) == name \in DOMAIN cache

\* The report built from the cache entry [year, url] of the entity name.
CachedReport(cache, mne) ==
    AnnualReport(mne.ID, cache[mne.NAME][2], cache[mne.NAME][1])

\* `annual_report.pdf_url and annual_report.year >= 2024`: with a pdf_url and
\* no year the comparison None >= 2024 raises TypeError.
CacheTestRaises(report) == report.url # None /\ report.year = None

ShouldCache_AnyYear(report) == report.url # None

ShouldCache(report) == report.url # None /\ report.year >= 2024

\* A call record: the fetcher instance, the entity, where the coroutine stands,
\* which collaborators it has used, and how it ended.  `cached` is the cache
\* entry of the name when the call was made and `after_report` tells whether a
\* report had already been returned for the name by this fetcher.
Call(i, id, pc, result) ==
    [fetcher |-> i, mne |-> id, pc |-> pc, searched |-> FALSE, validated |-> FALSE,
     llm |-> FALSE, write |-> "none", result |-> result,
     cached |-> IF MneName(id) \in DOMAIN reports_cache[i] THEN <<reports_cache[i][MneName(id)]>> ELSE <<>>,
     after_report |-> \E c \in 1..Len(calls) :
                          /\ calls[c].fetcher = i /\ calls[c].mne = id
                          /\ calls[c].pc = "done" /\ calls[c].result.report # <<>>]

\* An AnnualReportFetcher is constructed (a new run): its cache is what the file holds.
NewReportFetcher(i) ==
    /\ \A c \in 1..Len(calls) : calls[c].fetcher = i => calls[c].pc \in {"done", "raised"}
    /\ reports_cache' = [reports_cache EXCEPT ![i] = LoadCache(cache_file)]
    /\ UNCHANGED <<cache_file, calls>>

\* async_fetch_for is called and runs to its first suspension: the cache test,
\* then either the return of the cached report or the start of the search.
AsyncFetchFor(i, id) ==
    /\ Len(calls) < MaxCalls
    /\ calls' = Append(calls,
          IF CacheHit(reports_cache[i], MneName(id))
          THEN Call(i, id, "done", ReportReturns(<<CachedReport(reports_cache[i], Mne(id))>>))
          ELSE Call(i, id, "search", ReportReturns(<<>>)))
    /\ UNCHANGED <<reports_cache, cache_file>>

\* self._search returns or raises; only AssertionError is caught, so its
\* exception leaves the call.  With candidates the call goes on to probe them.
FetchSearched(c, outcome) ==
    /\ calls[c].pc = "search"
    /\ calls' = [calls EXCEPT ![c].searched = TRUE,
                              ![c].pc = CASE outcome = "raised" -> "raised"
                                          [] outcome = "empty" -> "done"
                                          [] OTHER -> "format",
                              ![c].result = IF outcome = "raised"
                                            THEN ReportRaises("TypeError")
                                            ELSE ReportReturns(<<>>)]
    /\ UNCHANGED <<reports_cache, cache_file>>

\* self._format_urls returns; the call goes on to the LLM.
FetchFormatted(c) ==
    /\ calls[c].pc = "format"
    /\ calls' = [calls EXCEPT ![c].validated = TRUE, ![c].pc = "llm"]
    /\ UNCHANGED <<reports_cache, cache_file>>

\* self._call_llm returns or raises, and the call runs to its end: the cache
\* update, the write of the file, the return.
FetchAnswered(c, answer, written) ==
    LET i == calls[c].fetcher
        mne == Mne(calls[c].mne)
        report == AnnualReport(mne.ID, answer.pdf_url, answer.year)
        store == ~answer.error /\ ~CacheTestRaises(report) /\ ShouldCache(report)
        cache == IF store
                 THEN SetItem(reports_cache[i], mne.NAME, <<report.year, report.url>>)
                 ELSE reports_cache[i]
    IN /\ calls[c].pc = "llm"
       \* an outcome the call does not reach is not enumerated
       /\ ~store => written = "written"
       /\ calls' = [calls EXCEPT
             ![c].llm = TRUE,
             ![c].write = IF store THEN written ELSE "none",
             ![c].pc = IF answer.error \/ CacheTestRaises(report) THEN "raised" ELSE "done",
             ![c].result = CASE answer.error -> ReportRaises("APIError")
                             [] CacheTestRaises(report) -> ReportRaises("TypeError")
                             [] OTHER -> ReportReturns(<<report>>)]
       /\ reports_cache' = [reports_cache EXCEPT ![i] = cache]
       /\ cache_file' = IF store THEN SaveCache(cache_file, cache, written) ELSE cache_file

(***************************************************************************)
(* NACEClassifier.classify (nace_classifier/classifier.py)                 *)
(***************************************************************************)

\* Bound: number of documents the similarity search returns (top_k).
MaxDocs == 2

\* self.mapping (mapping.json): the section letter of every NACE division.
Mapping == ("01" :> "A") @@ ("10" :> "C") @@ ("41" :> "F") @@ ("62" :> "J") @@ ("70" :> "M")
Divisions == DOMAIN Mapping

\* What the LLM can answer under the Activity schema (code: str): any string,
\* a division code or not.
LlmCodes == Divisions \cup {"zz"}

\* f"{self.mapping[parsed.code]}{parsed.code}": the section letter followed by
\* the division code.
PrefixedCode(code) == <<Mapping[code], code>>

\* The failure of the chat.completions.parse call, among its outcomes.
LlmError == "APIError"
LlmOutcomes == LlmCodes \cup {LlmError}

\* The chat.completions.parse calls of one classify that reaches the LLM:
\* the call is made once, outside any loop or try block, whether it fails or not.
LlmCalls_Retry(failed) == IF failed THEN 2 ELSE 1

LlmCalls(failed) == 1

\* The one self.db.similarity_search call of classify returns one more document.
SimilaritySearch(code) ==
    /\ cpc = "retrieve"
    /\ Len(docs) < MaxDocs
    /\ code \notin Range(docs)
    /\ docs' = Append(docs, code)
    /\ UNCHANGED <<cpc, activity, searches, llm_calls>>

\* classify: the similarity search (which may raise), then the LLM call, which
\* fails or answers with a code, and the lookup of the answer in the mapping
\* (KeyError when it is not a division code). Nothing is caught.
Classify(search_ok, answer) ==
    /\ cpc = "retrieve"
    /\ searches' = searches + 1
    /\ UNCHANGED docs
    /\ IF ~search_ok
       THEN /\ docs = <<>>           \* the search returned nothing: it raised
            /\ answer = LlmError     \* the LLM is not reached: one outcome
            /\ llm_calls' = llm_calls
            /\ cpc' = "search_raised" /\ activity' = <<>>
       ELSE /\ llm_calls' = llm_calls + LlmCalls(answer = LlmError)
            /\ IF answer \in DOMAIN Mapping
               THEN cpc' = "done" /\ activity' = PrefixedCode(answer)
               ELSE /\ cpc' = IF answer = LlmError THEN "llm_raised" ELSE "raised"
                    /\ activity' = <<>>

(***************************************************************************)
(* AnnualReportFetcher.get_url_responses and _format_urls                  *)
(* (fetchers/annual_reports.py)                                            *)
(***************************************************************************)

\* Bound: number of search results given to _format_urls.
MaxUrls == 3

\* What the GET probe of a URL can meet: an exception (timeout, connection or
\* TLS failure), or a response with a status and a content type.
ProbeError == [error |-> TRUE, status |-> None, content_type |-> NoneStr]
Probes == {ProbeError}
          \cup {[error |-> FALSE, status |-> s, content_type |-> t] :
                    s \in {200, 404}, t \in {"application/pdf", "text/html"}}

\* fetch(url) of get_url_responses: the boolean of the test on the response,
\* or the exception object itself, which the except clause returns.
Fetch(probe) ==
    IF probe.error THEN "Exception"
    ELSE IF probe.status = 200 /\ probe.content_type = "application/pdf" THEN "True"
         ELSE "False"

\* get_url_responses: one entry per URL, aligned by index.
GetUrlResponses_Abort(results) ==
    LET n == Len(results)
        failed == {i \in 1..n : results[i].probe.error}
    IN [i \in 1..n |-> IF \E j \in failed : j <= i THEN "Exception"
                       ELSE Fetch(results[i].probe)]

GetUrlResponses(results) == [i \in 1..Len(results) |-> Fetch(results[i].probe)]

\* `if resp`: the truth value of a gathered entry; an exception object is truthy.
RespTruthy(resp) == resp # "False"

\* The items of _format_urls: the results whose gathered entry is truthy, each
\* with its index in `results` (enumerate starts at 0).
FormatItems(results) ==
    LET responses == GetUrlResponses(results)
        numbered == [i \in 1..Len(results) |-> [i |-> i - 1, url |-> results[i].url]]
    IN SelectSeq(numbered, LAMBDA item : RespTruthy(responses[item.i + 1]))

\* One more search result is given to _format_urls; `probe` is what the GET of
\* its URL will meet.
AddCandidate(probe) ==
    /\ fpc = "input"
    /\ Len(candidates) < MaxUrls
    /\ candidates' = Append(candidates, [url |-> 100 + Len(candidates), probe |-> probe])
    /\ UNCHANGED <<fpc, list_urls, url_responses>>

\* _format_urls(mne, results)
FormatUrls ==
    /\ fpc = "input"
    /\ fpc' = "done"
    /\ url_responses' = GetUrlResponses(candidates)
    /\ list_urls' = FormatItems(candidates)
    /\ UNCHANGED candidates

(***************************************************************************)
(* DuckDuckGoSearch.search, attempt by attempt                             *)
(* (common/websearch/duckduckgo.py)                                        *)
(***************************************************************************)

\* USER_AGENTS: five distinct strings, by their index in the list.
USER_AGENTS == 1..5

\* `[ua for ua in USER_AGENTS if ua != ua1]`: what the retry chooses from.
RetryAgents_Any(ua1) == USER_AGENTS

RetryAgents(ua1) == USER_AGENTS \ {ua1}

\* One DDGS(headers={"User-Agent": ua}).text(...) call.
Attempt(ua, fails) == [ua |-> ua, raised |-> fails]

\* The first attempt, with a User-Agent chosen at random; when it raises the
\* call goes on to the retry, otherwise it ends with the records of the results.
FirstAttempt(ua, fails, raw) ==
    /\ qpc = "first"
    /\ attempts' = Append(attempts, Attempt(ua, fails))
    /\ IF fails
       THEN qpc' = "retry" /\ UNCHANGED ddg_results
       ELSE qpc' = "done" /\ ddg_results' = <<DuckDuckGo(1, FALSE, FALSE, raw)>>

\* The retry, with a User-Agent chosen among the others; when it raises too
\* the call returns [].
RetryAttempt(ua, fails, raw) ==
    /\ qpc = "retry"
    /\ ua \in RetryAgents(attempts[1].ua)
    /\ attempts' = Append(attempts, Attempt(ua, fails))
    /\ qpc' = "done"
    /\ ddg_results' = <<DuckDuckGo(1, TRUE, fails, raw)>>

(***************************************************************************)
(* WikipediaExtractor._get_claim_value for an amount (extraction/wikipedia.py) *)
(***************************************************************************)

\* Bound: number of claims of the property.
MaxClaims == 3

\* The year _parse_claim_time reads from the P585 qualifier of a claim: None
\* when the qualifier is missing or unreadable, else int(raw_time[1:5]).
ClaimTimes == {None, 0, 2022, 2023}

\* A claim with its amount and the year of its qualifier; the amount tells
\* which claim of the list it is.
Claim(ord, time) == [amount |-> 10 * ord, time |-> time]

\* _parse_claim_time
ParseClaimTime(claim) == claim.time

\* dated_claims: the claims whose parsed date is truthy, with the date.
DatedClaims(cl) == SelectSeq(cl, LAMBDA c : Truthy(ParseClaimTime(c)))

\* max(dated_claims, key=lambda x: x[0]): the first claim with the greatest date.
LatestClaim(dated) ==
    LET top == SetMax({ParseClaimTime(dated[i]) : i \in 1..Len(dated)})
    IN dated[CHOOSE i \in 1..Len(dated) :
                /\ ParseClaimTime(dated[i]) = top
                /\ \A j \in 1..(i - 1) : ParseClaimTime(dated[j]) # top]

\* The tuple (amount, latest_date, unit_label) without its unit.
ClaimValue(amount, date) == [amount |-> amount, date |-> date]

\* _get_claim_value(claims, prop, "amount"): an empty claim list raises
\* IndexError on claims[prop][0], which gives (None, None, None).
GetClaimValue_First(cl) ==
    IF cl = <<>> THEN ClaimValue(None, None)
    ELSE ClaimValue(cl[1].amount, ParseClaimTime(cl[1]))

GetClaimValue(cl) ==
    IF cl = <<>> THEN ClaimValue(None, None)
    ELSE IF DatedClaims(cl) # <<>>
         THEN ClaimValue(LatestClaim(DatedClaims(cl)).amount,
                         ParseClaimTime(LatestClaim(DatedClaims(cl))))
         ELSE ClaimValue(cl[1].amount, None)

\* The property has one more claim.
AddClaim(time) ==
    /\ kpc = "input"
    /\ Len(claims) < MaxClaims
    /\ claims' = Append(claims, Claim(Len(claims) + 1, time))
    /\ UNCHANGED <<kpc, claim_value>>

\* _get_claim_value is called on the claims.
CallGetClaimValue ==
    /\ kpc = "input"
    /\ kpc' = "done"
    /\ claim_value' = <<GetClaimValue(claims)>>
    /\ UNCHANGED claims

(***************************************************************************)
(* Specifications                                                          *)
(***************************************************************************)

\* The variables of the components a specification does not run.
OtherThanMerge == <<extractionVars, discoveryVars, extractVars, sourcesVars, searchVars, reportVars, classifyVars, formatVars, duckVars, claimVars>>
OtherThanExtraction == <<mergeVars, discoveryVars, extractVars, sourcesVars, searchVars, reportVars, classifyVars, formatVars, duckVars, claimVars>>
OtherThanDiscovery == <<mergeVars, extractionVars, extractVars, sourcesVars, searchVars, reportVars, classifyVars, formatVars, duckVars, claimVars>>
OtherThanExtract == <<mergeVars, extractionVars, discoveryVars, sourcesVars, searchVars, reportVars, classifyVars, formatVars, duckVars, claimVars>>
OtherThanSources == <<mergeVars, extractionVars, discoveryVars, extractVars, searchVars, reportVars, classifyVars, formatVars, duckVars, claimVars>>
OtherThanSearch == <<mergeVars, extractionVars, discoveryVars, extractVars, sourcesVars, reportVars, classifyVars, formatVars, duckVars, claimVars>>
OtherThanReports == <<mergeVars, extractionVars, discoveryVars, extractVars, sourcesVars, searchVars, classifyVars, formatVars, duckVars, claimVars>>
OtherThanClassify == <<mergeVars, extractionVars, discoveryVars, extractVars, sourcesVars, searchVars, reportVars, formatVars, duckVars, claimVars>>
OtherThanFormat == <<mergeVars, extractionVars, discoveryVars, extractVars, sourcesVars, searchVars, reportVars, classifyVars, duckVars, claimVars>>
OtherThanDuckDuckGo == <<mergeVars, extractionVars, discoveryVars, extractVars, sourcesVars, searchVars, reportVars, classifyVars, formatVars, claimVars>>
OtherThanClaims == <<mergeVars, extractionVars, discoveryVars, extractVars, sourcesVars, searchVars, reportVars, classifyVars, formatVars, duckVars>>

InitMerge ==
    /\ sources = <<>> /\ merged = <<>> /\ last = [item |-> NoFact, stored |-> NoFact]
    /\ mpc = "loop" /\ mresult = <<>>
    /\ mne_infos = <<>> /\ epc = "idle" /\ submission = <<>>
    /\ disc_infos = <<>> /\ dpc = "idle" /\ discovery = <<>>
    /\ extractor = "none" /\ tasks = <<>> /\ page = "none" /\ xpc = "idle"
    /\ infos = <<>> /\ xresult = NoneResult
    /\ ticker_cache = <<>> /\ ticker_file = <<>> /\ fetches = <<>>
    /\ provided = <<>> /\ spc = "idle" /\ found = <<>>
    /\ reports_cache = <<>> /\ cache_file = <<>> /\ calls = <<>>
    /\ docs = <<>> /\ cpc = "idle" /\ activity = <<>> /\ searches = 0 /\ llm_calls = 0
    /\ candidates = <<>> /\ fpc = "idle" /\ list_urls = <<>> /\ url_responses = <<>>
    /\ attempts = <<>> /\ qpc = "idle" /\ ddg_results = <<>>
    /\ claims = <<>> /\ kpc = "idle" /\ claim_value = <<>>

NextMerge ==
    \/ \E isNone \in BOOLEAN : SkipSource(isNone) /\ UNCHANGED OtherThanMerge
    \/ \E id \in MergeIds, var \in MergeVariables, year \in MergeYears :
          FirstItem(MergeFact(id, var, year, NumFacts + 1)) /\ UNCHANGED OtherThanMerge
    \/ \E id \in MergeIds, var \in MergeVariables, year \in MergeYears :
          NextItem(MergeFact(id, var, year, NumFacts + 1)) /\ UNCHANGED OtherThanMerge
    \/ MergeReturn /\ UNCHANGED OtherThanMerge

SpecMerge == InitMerge /\ [][NextMerge]_vars

NextMergeEntities ==
    \/ \E isNone \in BOOLEAN : SkipSource(isNone) /\ UNCHANGED OtherThanMerge
    \/ \E id \in MergeEntityIds, var \in MergeVariables, year \in MergeEntityYears :
          FirstItem(MergeFact(id, var, year, NumFacts + 1)) /\ UNCHANGED OtherThanMerge
    \/ \E id \in MergeEntityIds, var \in MergeVariables, year \in MergeEntityYears :
          NextItem(MergeFact(id, var, year, NumFacts + 1)) /\ UNCHANGED OtherThanMerge
    \/ MergeReturn /\ UNCHANGED OtherThanMerge

SpecMergeEntities == InitMerge /\ [][NextMergeEntities]_vars

InitExtraction ==
    /\ sources = <<>> /\ merged = <<>> /\ last = [item |-> NoFact, stored |-> NoFact]
    /\ mpc = "idle" /\ mresult = <<>>
    /\ mne_infos = <<>> /\ epc = "input" /\ submission = <<>>
    /\ disc_infos = <<>> /\ dpc = "idle" /\ discovery = <<>>
    /\ extractor = "none" /\ tasks = <<>> /\ page = "none" /\ xpc = "idle"
    /\ infos = <<>> /\ xresult = NoneResult
    /\ ticker_cache = <<>> /\ ticker_file = <<>> /\ fetches = <<>>
    /\ provided = <<>> /\ spc = "idle" /\ found = <<>>
    /\ reports_cache = <<>> /\ cache_file = <<>> /\ calls = <<>>
    /\ docs = <<>> /\ cpc = "idle" /\ activity = <<>> /\ searches = 0 /\ llm_calls = 0
    /\ candidates = <<>> /\ fpc = "idle" /\ list_urls = <<>> /\ url_responses = <<>>
    /\ attempts = <<>> /\ qpc = "idle" /\ ddg_results = <<>>
    /\ claims = <<>> /\ kpc = "idle" /\ claim_value = <<>>

NextExtraction ==
    \/ \E id \in 1..MaxEntities : AddEntity(id) /\ UNCHANGED OtherThanExtraction
    \/ \E var \in InputVariables, year \in InputYears :
          AddInfo(var, year) /\ UNCHANGED OtherThanExtraction
    \/ GenerateExtraction /\ UNCHANGED OtherThanExtraction

SpecExtraction == InitExtraction /\ [][NextExtraction]_vars

InitDiscovery ==
    /\ sources = <<>> /\ merged = <<>> /\ last = [item |-> NoFact, stored |-> NoFact]
    /\ mpc = "idle" /\ mresult = <<>>
    /\ mne_infos = <<>> /\ epc = "idle" /\ submission = <<>>
    /\ disc_infos = <<>> /\ dpc = "input" /\ discovery = <<>>
    /\ extractor = "none" /\ tasks = <<>> /\ page = "none" /\ xpc = "idle"
    /\ infos = <<>> /\ xresult = NoneResult
    /\ ticker_cache = <<>> /\ ticker_file = <<>> /\ fetches = <<>>
    /\ provided = <<>> /\ spc = "idle" /\ found = <<>>
    /\ reports_cache = <<>> /\ cache_file = <<>> /\ calls = <<>>
    /\ docs = <<>> /\ cpc = "idle" /\ activity = <<>> /\ searches = 0 /\ llm_calls = 0
    /\ candidates = <<>> /\ fpc = "idle" /\ list_urls = <<>> /\ url_responses = <<>>
    /\ attempts = <<>> /\ qpc = "idle" /\ ddg_results = <<>>
    /\ claims = <<>> /\ kpc = "idle" /\ claim_value = <<>>

NextDiscovery ==
    \/ \E id \in 1..MaxEntities : AddMne(id) /\ UNCHANGED OtherThanDiscovery
    \/ \E id \in 1..MaxEntities, pdf_url \in ReportUrls, year \in ReportYears :
          AddMneWithReport(id, pdf_url, year) /\ UNCHANGED OtherThanDiscovery
    \/ AddCitation /\ UNCHANGED OtherThanDiscovery
    \/ GenerateDiscovery /\ UNCHANGED OtherThanDiscovery

SpecDiscovery == InitDiscovery /\ [][NextDiscovery]_vars

InitExtract ==
    /\ sources = <<>> /\ merged = <<>> /\ last = [item |-> NoFact, stored |-> NoFact]
    /\ mpc = "idle" /\ mresult = <<>>
    /\ mne_infos = <<>> /\ epc = "idle" /\ submission = <<>>
    /\ disc_infos = <<>> /\ dpc = "idle" /\ discovery = <<>>
    /\ extractor \in {"wikipedia", "yahoo"} /\ tasks = <<>> /\ page = "none"
    /\ xpc = "start" /\ infos = <<>> /\ xresult = NoneResult
    /\ ticker_cache = <<>> /\ ticker_file = <<>> /\ fetches = <<>>
    /\ provided = <<>> /\ spc = "idle" /\ found = <<>>
    /\ reports_cache = <<>> /\ cache_file = <<>> /\ calls = <<>>
    /\ docs = <<>> /\ cpc = "idle" /\ activity = <<>> /\ searches = 0 /\ llm_calls = 0
    /\ candidates = <<>> /\ fpc = "idle" /\ list_urls = <<>> /\ url_responses = <<>>
    /\ attempts = <<>> /\ qpc = "idle" /\ ddg_results = <<>>
    /\ claims = <<>> /\ kpc = "idle" /\ claim_value = <<>>

NextExtract ==
    \/ ReturnWithoutId /\ UNCHANGED OtherThanExtract
    \/ RaiseBeforeTry /\ UNCHANGED OtherThanExtract
    \/ EnterTry /\ UNCHANGED OtherThanExtract
    \/ \E outcome \in AllOutcomes : RunTask(outcome) /\ UNCHANGED OtherThanExtract
    \/ HandleExceptions /\ UNCHANGED OtherThanExtract
    \/ \E ok \in BOOLEAN : FetchPage(ok) /\ UNCHANGED OtherThanExtract
    \/ ReturnResults /\ UNCHANGED OtherThanExtract

SpecExtract == InitExtract /\ [][NextExtract]_vars

InitSources ==
    /\ sources = <<>> /\ merged = <<>> /\ last = [item |-> NoFact, stored |-> NoFact]
    /\ mpc = "idle" /\ mresult = <<>>
    /\ mne_infos = <<>> /\ epc = "idle" /\ submission = <<>>
    /\ disc_infos = <<>> /\ dpc = "idle" /\ discovery = <<>>
    /\ extractor = "none" /\ tasks = <<>> /\ page = "none" /\ xpc = "idle"
    /\ infos = <<>> /\ xresult = NoneResult
    /\ ticker_cache = [i \in YahooFetchers |-> EmptyDict]
    /\ ticker_file = CacheFile(EmptyDict)
    /\ fetches = <<>>
    /\ provided = <<>> /\ spc = "idle" /\ found = <<>>
    /\ reports_cache = <<>> /\ cache_file = <<>> /\ calls = <<>>
    /\ docs = <<>> /\ cpc = "idle" /\ activity = <<>> /\ searches = 0 /\ llm_calls = 0
    /\ candidates = <<>> /\ fpc = "idle" /\ list_urls = <<>> /\ url_responses = <<>>
    /\ attempts = <<>> /\ qpc = "idle" /\ ddg_results = <<>>
    /\ claims = <<>> /\ kpc = "idle" /\ claim_value = <<>>

NextSources ==
    \/ \E i \in YahooFetchers : NewYahooFetcher(i) /\ UNCHANGED OtherThanSources
    \/ \E id \in FetchIds, search \in WikipediaSearchOutcomes, pg \in WikipediaPageOutcomes :
          WikipediaFetchFor(id, search, pg) /\ UNCHANGED OtherThanSources
    \/ \E i \in YahooFetchers, id \in FetchIds, symbol \in TickerOutcomes,
          written \in WriteOutcomes, pg \in YahooPageOutcomes :
          YahooFetchFor(i, id, symbol, written, pg) /\ UNCHANGED OtherThanSources
    \/ \E id \in FetchIds, country \in Countries, outcome \in RegisterOutcomes :
          OfficialRegisterFetchFor(id, country, outcome) /\ UNCHANGED OtherThanSources

SpecSources == InitSources /\ [][NextSources]_vars

InitSearch ==
    /\ sources = <<>> /\ merged = <<>> /\ last = [item |-> NoFact, stored |-> NoFact]
    /\ mpc = "idle" /\ mresult = <<>>
    /\ mne_infos = <<>> /\ epc = "idle" /\ submission = <<>>
    /\ disc_infos = <<>> /\ dpc = "idle" /\ discovery = <<>>
    /\ extractor = "none" /\ tasks = <<>> /\ page = "none" /\ xpc = "idle"
    /\ infos = <<>> /\ xresult = NoneResult
    /\ ticker_cache = <<>> /\ ticker_file = <<>> /\ fetches = <<>>
    /\ provided = <<>> /\ spc = "gather" /\ found = <<>>
    /\ reports_cache = <<>> /\ cache_file = <<>> /\ calls = <<>>
    /\ docs = <<>> /\ cpc = "idle" /\ activity = <<>> /\ searches = 0 /\ llm_calls = 0
    /\ candidates = <<>> /\ fpc = "idle" /\ list_urls = <<>> /\ url_responses = <<>>
    /\ attempts = <<>> /\ qpc = "idle" /\ ddg_results = <<>>
    /\ claims = <<>> /\ kpc = "idle" /\ claim_value = <<>>

NextSearch ==
    \/ \E firstFails \in BOOLEAN, retryFails \in BOOLEAN, raw \in RawResults :
          DuckDuckGoSearch(firstFails, retryFails, raw) /\ UNCHANGED OtherThanSearch
    \/ \E fails \in BOOLEAN, raw \in RawResults :
          GoogleSearch(fails, raw) /\ UNCHANGED OtherThanSearch
    \/ Search /\ UNCHANGED OtherThanSearch

SpecSearch == InitSearch /\ [][NextSearch]_vars

InitReports ==
    /\ sources = <<>> /\ merged = <<>> /\ last = [item |-> NoFact, stored |-> NoFact]
    /\ mpc = "idle" /\ mresult = <<>>
    /\ mne_infos = <<>> /\ epc = "idle" /\ submission = <<>>
    /\ disc_infos = <<>> /\ dpc = "idle" /\ discovery = <<>>
    /\ extractor = "none" /\ tasks = <<>> /\ page = "none" /\ xpc = "idle"
    /\ infos = <<>> /\ xresult = NoneResult
    /\ ticker_cache = <<>> /\ ticker_file = <<>> /\ fetches = <<>>
    /\ provided = <<>> /\ spc = "idle" /\ found = <<>>
    /\ reports_cache = [i \in ReportFetchers |-> EmptyDict]
    /\ cache_file = CacheFile(EmptyDict) /\ calls = <<>>
    /\ docs = <<>> /\ cpc = "idle" /\ activity = <<>> /\ searches = 0 /\ llm_calls = 0
    /\ candidates = <<>> /\ fpc = "idle" /\ list_urls = <<>> /\ url_responses = <<>>
    /\ attempts = <<>> /\ qpc = "idle" /\ ddg_results = <<>>
    /\ claims = <<>> /\ kpc = "idle" /\ claim_value = <<>>

NextReports ==
    \/ \E i \in ReportFetchers : NewReportFetcher(i) /\ UNCHANGED OtherThanReports
    \/ \E i \in ReportFetchers, id \in FetchIds :
          AsyncFetchFor(i, id) /\ UNCHANGED OtherThanReports
    \/ \E c \in 1..Len(calls), outcome \in SearchOutcomes :
          FetchSearched(c, outcome) /\ UNCHANGED OtherThanReports
    \/ \E c \in 1..Len(calls) : FetchFormatted(c) /\ UNCHANGED OtherThanReports
    \/ \E c \in 1..Len(calls), answer \in LlmAnswers, written \in WriteOutcomes :
          FetchAnswered(c, answer, written) /\ UNCHANGED OtherThanReports

SpecReports == InitReports /\ [][NextReports]_vars

InitClassify ==
    /\ sources = <<>> /\ merged = <<>> /\ last = [item |-> NoFact, stored |-> NoFact]
    /\ mpc = "idle" /\ mresult = <<>>
    /\ mne_infos = <<>> /\ epc = "idle" /\ submission = <<>>
    /\ disc_infos = <<>> /\ dpc = "idle" /\ discovery = <<>>
    /\ extractor = "none" /\ tasks = <<>> /\ page = "none" /\ xpc = "idle"
    /\ infos = <<>> /\ xresult = NoneResult
    /\ ticker_cache = <<>> /\ ticker_file = <<>> /\ fetches = <<>>
    /\ provided = <<>> /\ spc = "idle" /\ found = <<>>
    /\ reports_cache = <<>> /\ cache_file = <<>> /\ calls = <<>>
    /\ docs = <<>> /\ cpc = "retrieve" /\ activity = <<>> /\ searches = 0 /\ llm_calls = 0
    /\ candidates = <<>> /\ fpc = "idle" /\ list_urls = <<>> /\ url_responses = <<>>
    /\ attempts = <<>> /\ qpc = "idle" /\ ddg_results = <<>>
    /\ claims = <<>> /\ kpc = "idle" /\ claim_value = <<>>

NextClassify ==
    \/ \E code \in Divisions : SimilaritySearch(code) /\ UNCHANGED OtherThanClassify
    \/ \E search_ok \in BOOLEAN, answer \in LlmOutcomes :
          Classify(search_ok, answer) /\ UNCHANGED OtherThanClassify

SpecClassify == InitClassify /\ [][NextClassify]_vars

InitFormat ==
    /\ sources = <<>> /\ merged = <<>> /\ last = [item |-> NoFact, stored |-> NoFact]
    /\ mpc = "idle" /\ mresult = <<>>
    /\ mne_infos = <<>> /\ epc = "idle" /\ submission = <<>>
    /\ disc_infos = <<>> /\ dpc = "idle" /\ discovery = <<>>
    /\ extractor = "none" /\ tasks = <<>> /\ page = "none" /\ xpc = "idle"
    /\ infos = <<>> /\ xresult = NoneResult
    /\ ticker_cache = <<>> /\ ticker_file = <<>> /\ fetches = <<>>
    /\ provided = <<>> /\ spc = "idle" /\ found = <<>>
    /\ reports_cache = <<>> /\ cache_file = <<>> /\ calls = <<>>
    /\ docs = <<>> /\ cpc = "idle" /\ activity = <<>> /\ searches = 0 /\ llm_calls = 0
    /\ candidates = <<>> /\ fpc = "input" /\ list_urls = <<>> /\ url_responses = <<>>
    /\ attempts = <<>> /\ qpc = "idle" /\ ddg_results = <<>>
    /\ claims = <<>> /\ kpc = "idle" /\ claim_value = <<>>

NextFormat ==
    \/ \E probe \in Probes : AddCandidate(probe) /\ UNCHANGED OtherThanFormat
    \/ FormatUrls /\ UNCHANGED OtherThanFormat

SpecFormat == InitFormat /\ [][NextFormat]_vars

InitDuckDuckGo ==
    /\ sources = <<>> /\ merged = <<>> /\ last = [item |-> NoFact, stored |-> NoFact]
    /\ mpc = "idle" /\ mresult = <<>>
    /\ mne_infos = <<>> /\ epc = "idle" /\ submission = <<>>
    /\ disc_infos = <<>> /\ dpc = "idle" /\ discovery = <<>>
    /\ extractor = "none" /\ tasks = <<>> /\ page = "none" /\ xpc = "idle"
    /\ infos = <<>> /\ xresult = NoneResult
    /\ ticker_cache = <<>> /\ ticker_file = <<>> /\ fetches = <<>>
    /\ provided = <<>> /\ spc = "idle" /\ found = <<>>
    /\ reports_cache = <<>> /\ cache_file = <<>> /\ calls = <<>>
    /\ docs = <<>> /\ cpc = "idle" /\ activity = <<>> /\ searches = 0 /\ llm_calls = 0
    /\ candidates = <<>> /\ fpc = "idle" /\ list_urls = <<>> /\ url_responses = <<>>
    /\ attempts = <<>> /\ qpc = "first" /\ ddg_results = <<>>
    /\ claims = <<>> /\ kpc = "idle" /\ claim_value = <<>>

NextDuckDuckGo ==
    \/ \E ua \in USER_AGENTS, fails \in BOOLEAN, raw \in RawResults :
          FirstAttempt(ua, fails, raw) /\ UNCHANGED OtherThanDuckDuckGo
    \/ \E ua \in USER_AGENTS, fails \in BOOLEAN, raw \in RawResults :
          RetryAttempt(ua, fails, raw) /\ UNCHANGED OtherThanDuckDuckGo

SpecDuckDuckGo == InitDuckDuckGo /\ [][NextDuckDuckGo]_vars

InitClaims ==
    /\ sources = <<>> /\ merged = <<>> /\ last = [item |-> NoFact, stored |-> NoFact]
    /\ mpc = "idle" /\ mresult = <<>>
    /\ mne_infos = <<>> /\ epc = "idle" /\ submission = <<>>
    /\ disc_infos = <<>> /\ dpc = "idle" /\ discovery = <<>>
    /\ extractor = "none" /\ tasks = <<>> /\ page = "none" /\ xpc = "idle"
    /\ infos = <<>> /\ xresult = NoneResult
    /\ ticker_cache = <<>> /\ ticker_file = <<>> /\ fetches = <<>>
    /\ provided = <<>> /\ spc = "idle" /\ found = <<>>
    /\ reports_cache = <<>> /\ cache_file = <<>> /\ calls = <<>>
    /\ docs = <<>> /\ cpc = "idle" /\ activity = <<>> /\ searches = 0 /\ llm_calls = 0
    /\ candidates = <<>> /\ fpc = "idle" /\ list_urls = <<>> /\ url_responses = <<>>
    /\ attempts = <<>> /\ qpc = "idle" /\ ddg_results = <<>>
    /\ claims = <<>> /\ kpc = "input" /\ claim_value = <<>>

NextClaims ==
    \/ \E time \in ClaimTimes : AddClaim(time) /\ UNCHANGED OtherThanClaims
    \/ CallGetClaimValue /\ UNCHANGED OtherThanClaims

SpecClaims == InitClaims /\ [][NextClaims]_vars

(***************************************************************************)
(* Claims on merge_extracted_infos (checked under SpecMerge)               *)
(***************************************************************************)

MergeInput == InputFacts(sources)

\* Index of the first input fact with the variable and the year of `f`.
FirstWithYear(f) ==
    CHOOSE i \in 1..Len(MergeInput) :
        /\ MergeInput[i].variable = f.variable
        /\ MergeInput[i].year = f.year
        /\ \A j \in 1..(i - 1) :
              ~(MergeInput[j].variable = f.variable /\ MergeInput[j].year = f.year)

\* C1: a fact arriving for a variable that already has a stored fact replaces
\* the stored fact if and only if its year is non-null and either strictly
\* greater than the stored year or the stored year is null, for every
\* combination of incoming and stored year (null, zero, positive).
C1_ReplacesIffNewer ==
    last.stored # NoFact =>
        (Stored(merged, last.item.variable) = last.item
            <=> /\ last.item.year # None
                /\ (last.stored.year = None \/ last.item.year > last.stored.year))

\* C2: a fact whose year is null is never the returned fact of a variable for
\* which some input fact has a non-null year.
C2_NullYearNeverWins ==
    mpc = "done" =>
        \A i \in 1..Len(mresult) :
            mresult[i].year = None =>
                ~\E j \in 1..Len(MergeInput) :
                    /\ MergeInput[j].variable = mresult[i].variable
                    /\ MergeInput[j].year # None

\* C3: the returned fact of a variable carries the greatest year among the
\* input facts of that variable that have a non-null year.
C3_GreatestYearWins ==
    mpc = "done" =>
        \A var \in MergeVariables :
            LET years == {MergeInput[j].year : j \in
                            {k \in 1..Len(MergeInput) :
                                /\ MergeInput[k].variable = var
                                /\ MergeInput[k].year # None}}
            IN years # {} => Stored(mresult, var).year = SetMax(years)

\* C4: a later fact whose year equals the stored year never replaces the
\* stored fact, and among the input facts that share the variable and the
\* year of a returned fact the returned one is the first in input order.
C4_EqualYearKeepsFirst ==
    /\ (last.stored # NoFact /\ last.item.year = last.stored.year)
          => Stored(merged, last.item.variable) = last.stored
    /\ mpc = "done" =>
          \A i \in 1..Len(mresult) : MergeInput[FirstWithYear(mresult[i])] = mresult[i]

\* C4 witness: the call has returned a fact whose variable and year are shared
\* by a later input fact of another source.
C4_Witness ==
    /\ mpc = "done"
    /\ Len(sources) = 2
    /\ \E i \in 1..Len(mresult) :
          /\ mresult[i] \in Range(sources[1].items)
          /\ \E j \in 1..Len(sources[2].items) :
                /\ sources[2].items[j].variable = mresult[i].variable
                /\ sources[2].items[j].year = mresult[i].year
                /\ sources[2].items[j].year = 2024
                /\ sources[2].items[j].value # mresult[i].value

\* C5: the call returns exactly one fact, taken from the input, for every
\* variable that occurs in a source list and none for any other variable;
\* None and empty source lists contribute nothing.
C5_OneFactPerVariable ==
    mpc = "done" =>
        /\ {mresult[i].variable : i \in 1..Len(mresult)}
              = {MergeInput[j].variable : j \in 1..Len(MergeInput)}
        /\ \A i, j \in 1..Len(mresult) :
              mresult[i].variable = mresult[j].variable => i = j
        /\ Range(mresult) \subseteq Range(MergeInput)

\* C5 witness: the call has returned after skipping a falsy source and merging
\* two facts of one variable, the other variable being absent from the input.
C5_Witness ==
    /\ mpc = "done"
    /\ \E s \in 1..Len(sources) : Falsy(sources[s])
    /\ Len(MergeInput) >= 2
    /\ Len(mresult) = 1
    /\ \E var \in MergeVariables : \A j \in 1..Len(MergeInput) : MergeInput[j].variable # var

(***************************************************************************)
(* Claims on generate_extraction_submission (checked under SpecExtraction) *)
(***************************************************************************)

\* Rows of the returned table for one entity id.
SubmissionRows(id) == SelectSeq(submission, LAMBDA r : r.ID = id)

\* Input facts of one entity for one variable, in input order.
InputFactsOf(id, var) ==
    SelectSeq(ExtractionFrame(mne_infos), LAMBDA r : r.ID = id /\ r.Variable = var)

EntitiesWithFacts ==
    {ExtractionFrame(mne_infos)[i].ID : i \in 1..Len(ExtractionFrame(mne_infos))}

\* C6: an entity with at least one input fact has exactly 6 output rows, one
\* per canonical variable; the row of a variable with a fact is the first
\* matching fact, the row of a variable without a fact has SRC, VALUE,
\* CURRENCY and REFYEAR null.
C6_SixRowsPerEntityWithFacts ==
    epc = "done" =>
        \A id \in EntitiesWithFacts :
            /\ Len(SubmissionRows(id)) = 6
            /\ \A v \in 1..6 :
                  LET row == SubmissionRows(id)[v]
                      facts == InputFactsOf(id, CanonicalVariables[v])
                  IN /\ row.Variable = CanonicalVariables[v]
                     /\ row.ID = id /\ row.NAME = MneName(id)
                     /\ IF facts # <<>>
                        THEN row = facts[1]
                        ELSE /\ row.SRC = None /\ row.VALUE = None
                             /\ row.CURRENCY = NA /\ row.REFYEAR = None

\* C6 witness: the table was generated for an entity with two facts of one
\* canonical variable and no fact of another.
C6_Witness ==
    /\ epc = "done"
    /\ \E id \in EntitiesWithFacts :
          /\ Len(InputFactsOf(id, "COUNTRY")) >= 2
          /\ InputFactsOf(id, "TURNOVER") = <<>>

\* C7: the table holds one row per canonical variable for every input entity,
\* an entity with an empty fact-list included: 6 rows times the number of
\* input entities.
C7_SixRowsPerInputEntity ==
    epc = "done" =>
        /\ Len(submission) = 6 * Len(mne_infos)
        /\ \A id \in EntityIds(mne_infos) : Len(SubmissionRows(id)) = 6

(***************************************************************************)
(* Claims on generate_discovery_submission (checked under SpecDiscovery)   *)
(***************************************************************************)

\* OTHER rows of the returned table for one entity id.
OtherRows(id) == SelectSeq(discovery, LAMBDA r : r.ID = id /\ r.TYPE = "OTHER")

\* Citations of one entity in the input.
CitationsOf(id) ==
    SelectSeq(DiscoveryFrame(disc_infos), LAMBDA r : r.kind = "OtherSources" /\ r.mne_id = id)

\* Entities that have a record (report or citation) in the input.
EntitiesWithRecords ==
    {DiscoveryFrame(disc_infos)[i].mne_id : i \in 1..Len(DiscoveryFrame(disc_infos))}

\* C8: whatever the number of citations of an entity of the input (zero,
\* fewer than 5, exactly 5, more than 5), the table holds exactly 5 OTHER rows
\* for it, the rows beyond its citations being blank.
C8_FiveOtherRowsPerEntity ==
    dpc = "done" =>
        \A id \in EntitiesWithRecords :
            /\ Len(OtherRows(id)) = 5
            /\ \A i \in 1..5 :
                  i > Len(CitationsOf(id)) => OtherRows(id)[i].SRC = None

\* Entities that have an AnnualReport record in the input.
EntitiesWithReport ==
    {r.mne_id : r \in {x \in Range(DiscoveryFrame(disc_infos)) : x.kind = "AnnualReport"}}

\* The AnnualReport record of an entity of the input.
ReportOf(id) ==
    CHOOSE r \in Range(DiscoveryFrame(disc_infos)) : r.kind = "AnnualReport" /\ r.mne_id = id

TaskOfVariable(var) ==
    CASE var = "COUNTRY" -> "country" [] var = "EMPLOYEES" -> "employees"
      [] var = "TURNOVER" -> "turnover" [] var = "ASSETS" -> "assets"
      [] var = "WEBSITE" -> "website" [] var = "ACTIVITY" -> "activity"

OutcomeOf(var) == tasks[TaskIndex(extractor, TaskOfVariable(var))]

\* The facts of the returned list for one variable.
FactsOf(var) == SelectSeq(xresult.facts, LAMBDA f : f.variable = var)

AllGathered == Len(tasks) = Len(TaskNames(extractor))

\* The sub-extraction returned a value (a Wikidata amount: with its year).
ReturnedValue(outcome) ==
    /\ ~outcome.raised
    /\ outcome.value # NoneStr
    /\ outcome.tuple => outcome.year # None

\* What a sub-extraction returns when it finds nothing.
NullReturn(name) ==
    IF extractor = "wikipedia" /\ name \in {"employees", "turnover", "assets"}
    THEN Triple(NoneStr, None, NoneStr)
    ELSE Scalar(NoneStr)

\* The gathered outcomes with every exception replaced by the null return.
WithoutRaises ==
    [i \in 1..Len(tasks) |->
        IF tasks[i].raised THEN NullReturn(TaskNames(extractor)[i]) ELSE tasks[i]]

\* Nothing but sub-extractions failed: the page citation was fetches and
\* every returned value is one ExtractedInfo accepts.
RecordsBuilt ==
    /\ extractor = "wikipedia" => page = "ok"
    /\ \A i \in 1..Len(tasks) : tasks[i].value # Invalid

C10_FactsHaveValueAndYear ==
    xpc = "done" =>
        /\ ~xresult.isNone => xresult.facts # <<>>
        /\ \A i \in 1..Len(xresult.facts) :
              /\ xresult.facts[i].value # NoneStr
              /\ xresult.facts[i].year # None

\* The variables the Wikipedia extractor reads from Wikidata amounts.
AmountVariables == {"EMPLOYEES", "TURNOVER", "ASSETS"}

\* C28: when none of the Wikidata claims of EMPLOYEES, TURNOVER or ASSETS
\* carries a usable date, extract_wikipedia_infos emits no fact for that
\* variable: the first claim, returned with a null year, is dropped by the
\* null-year filter.
C28_UndatedAmountDropped ==
    (xpc = "done" /\ extractor = "wikipedia" /\ AllGathered) =>
        \A var \in AmountVariables :
            (OutcomeOf(var).tuple /\ OutcomeOf(var).year = None) => FactsOf(var) = <<>>

\* C28 witness: the extractor has returned a list of facts after the turnover
\* sub-extraction returned the amount of an undated claim.
C28_Witness ==
    /\ xpc = "done" /\ extractor = "wikipedia" /\ AllGathered
    /\ OutcomeOf("TURNOVER") = Triple("amount", None, "EUR")
    /\ FactsOf("TURNOVER") = <<>>
    /\ FactsOf("COUNTRY") # <<>>

\* C29: in both extractors, when the fact record of one variable is rejected
\* by the ExtractedInfo validation, the facts of the other variables are still
\* returned.
C29_RejectedRecordIsolated ==
    (/\ xpc = "done" /\ AllGathered
     /\ extractor = "wikipedia" => page = "ok"
     /\ \E i \in 1..Len(tasks) : tasks[i].value = Invalid) =>
        \A v \in 1..6 :
            LET var == CanonicalVariables[v] IN
            (ReturnedValue(OutcomeOf(var)) /\ OutcomeOf(var).value # Invalid)
                => Len(FactsOf(var)) = 1

(***************************************************************************)
(* Claims on the source fetchers (checked under SpecSources)               *)
(***************************************************************************)

\* C11: whatever network or parse error an external call of async_fetch_for
\* meets, the call of every fetcher variant ends with a result (None for the
\* source when the error hit) and no exception propagates to the caller.
C11_FetchNeverRaises ==
    \A i \in 1..Len(fetches) : fetches[i].result.exc = NoneStr

(***************************************************************************)
(* Claims on the search providers and _search (checked under SpecSearch)   *)
(***************************************************************************)

\* The results the searchers returned, in searcher order.
ProvidedItems == Flatten([k \in 1..Len(provided) |-> provided[k].items])

\* C12: a failure of a search backend never propagates: search(query) of
\* every provider ends with a list (empty when the backend failed), and
\* _search does not raise but returns the results of the other providers.
C12_ProviderFailureContained ==
    /\ \A k \in 1..Len(provided) : provided[k].exc = NoneStr
    /\ spc # "raised"

\* C13: _search returns one result per distinct URL of the providers'
\* outputs, and the result kept for a URL is its first occurrence in provider
\* order.
C13_FirstOccurrencePerUrl ==
    spc = "done" =>
        /\ {found[j].url : j \in 1..Len(found)} = {ProvidedItems[i].url : i \in 1..Len(ProvidedItems)}
        /\ \A j, l \in 1..Len(found) : found[j].url = found[l].url => j = l
        /\ \A j \in 1..Len(found) :
              \E i \in 1..Len(ProvidedItems) :
                 /\ ProvidedItems[i] = found[j]
                 /\ \A h \in 1..(i - 1) : ProvidedItems[h].url # found[j].url

(***************************************************************************)
(* Claims on AnnualReportFetcher.async_fetch_for (checked under SpecReports)*)
(***************************************************************************)

\* C14: a call made while the entity name is in the reports cache returns
\* the report built from the cached year and URL with the requesting entity's
\* id and name, and makes no search, no link validation, no LLM call and no
\* cache write.
C14_CacheHitReturnsCached ==
    \A c \in 1..Len(calls) :
        calls[c].cached # <<>> =>
            /\ calls[c].pc = "done"
            /\ calls[c].result =
                  ReportReturns(<<AnnualReport(calls[c].mne, calls[c].cached[1][2],
                                               calls[c].cached[1][1])>>)
            /\ ~calls[c].searched /\ ~calls[c].validated /\ ~calls[c].llm
            /\ calls[c].write = "none"

C14_Witness ==
    \E c \in 1..Len(calls) :
        /\ calls[c].cached # <<>>
        /\ calls[c].pc = "done"
        /\ calls[c].result.report # <<>>

\* The entries [year, url] held by the fetchers' caches and by the cache file.
CacheEntries ==
    UNION {{reports_cache[i][n] : n \in DOMAIN reports_cache[i]} : i \in ReportFetchers}
    \cup {cache_file.data[n] : n \in DOMAIN cache_file.data}

\* C15: starting from an empty cache, every entry of the reports cache (in
\* memory and in the file) has a year >= 2024, and a call that returned a
\* report with a year below 2024 has written nothing to the cache.
C15_CachedYearsAtLeast2024 ==
    /\ \A e \in CacheEntries : e[1] >= 2024
    /\ \A c \in 1..Len(calls) :
          (calls[c].llm /\ calls[c].pc = "done" /\ calls[c].result.report[1].year < 2024) =>
              /\ calls[c].write = "none"
              /\ \A i \in ReportFetchers :
                    MneName(calls[c].mne) \in DOMAIN reports_cache[i] =>
                        reports_cache[i][MneName(calls[c].mne)][1] >= 2024

C15_Witness ==
    \E c \in 1..Len(calls) :
        /\ calls[c].llm /\ calls[c].pc = "done"
        /\ calls[c].result.report[1].url # None
        /\ calls[c].result.report[1].year = 2023
        /\ \E d \in 1..Len(calls) : calls[d].write = "written"

\* C16: once a call has returned a report for an entity name, no later call
\* for the same name on the same fetcher (the same cache) makes an LLM call.
C16_NoLlmAfterReport ==
    \A c \in 1..Len(calls) : calls[c].after_report => ~calls[c].llm

\* C18: the annual-report cache is append-only: an entry stored for an entity
\* name, in a fetcher's memory or in the cache file, is never removed and
\* never changes, whatever the interleaving of the fetch tasks and of the
\* fetcher instances sharing the file.
C18_CacheAppendOnly ==
    [][/\ \A n \in DOMAIN cache_file.data :
             /\ n \in DOMAIN cache_file'.data
             /\ cache_file'.data[n] = cache_file.data[n]
       /\ calls' # calls =>
             \A i \in ReportFetchers : \A n \in DOMAIN reports_cache[i] :
                 /\ n \in DOMAIN reports_cache'[i]
                 /\ reports_cache'[i][n] = reports_cache[i][n]]_vars

\* C19: a failure while writing the cache file propagates to the caller of
\* the fetch: the call ends with the exception, never with a returned value.
C19_WriteFailurePropagates ==
    \A c \in 1..Len(calls) :
        calls[c].write \in {"open_failed", "dump_failed"} => calls[c].pc = "raised"

\* C26: on a cache miss with non-empty search results, async_fetch_for returns
\* the report parsed by the LLM, with the entity's id and name, for every value
\* of its year and pdf_url (a null year with a non-null pdf_url and a year below
\* 2024 included); only the cache write depends on the year.
C26_ParsedReportReturned ==
    \A c \in 1..Len(calls) :
        (calls[c].llm /\ calls[c].result.exc # "APIError") =>
            /\ calls[c].pc = "done"
            /\ calls[c].result.report # <<>>
            /\ calls[c].result.report[1].mne_id = Mne(calls[c].mne).ID
            /\ calls[c].result.report[1].mne_name = Mne(calls[c].mne).NAME

\* C27: for an entity name absent from the cache the LLM is called at most
\* once, even when the name appears more than once in the batch and the tasks
\* interleave at their suspension points: no two tasks of one fetcher for the
\* same name are at their LLM call together.
C27_OneLlmCallPerName ==
    \A c, d \in 1..Len(calls) :
        (/\ c # d
         /\ calls[c].fetcher = calls[d].fetcher
         /\ calls[c].mne = calls[d].mne
         /\ calls[c].cached = <<>> /\ calls[d].cached = <<>>)
            => ~(calls[c].pc = "llm" /\ calls[d].pc = "llm")

(***************************************************************************)
(* Claims on NACEClassifier.classify (checked under SpecClassify)          *)
(***************************************************************************)

\* C17: the code classify returns is built from a division code that is among
\* the candidate codes retrieved by the similarity search and passed to the
\* LLM, whatever the LLM answers under the Activity schema.
C17_CodeFromCandidates ==
    cpc = "done" => \E d \in Range(docs) : activity = PrefixedCode(d)

\* C24: each classify call performs exactly one similarity search and at most
\* one LLM call; when the LLM call fails, the failure propagates to the caller
\* with no retry and no result is returned.
C24_OneSearchOneLlmCall ==
    cpc # "retrieve" =>
        /\ searches = 1
        /\ llm_calls <= 1
        /\ cpc = "llm_raised" => (llm_calls = 1 /\ activity = <<>>)

C24_Witness == cpc = "llm_raised" /\ docs # <<>> /\ searches = 1 /\ llm_calls = 1

(***************************************************************************)
(* Claims on _format_urls (checked under SpecFormat)                       *)
(***************************************************************************)

\* C20: the candidate list that _format_urls builds for the LLM holds only the
\* URLs whose probe returned status 200 with content type application/pdf; a
\* URL whose probe ended in an error, another status or another content type
\* is not in the list.
C20_OnlyValidPdfListed ==
    fpc = "done" =>
        \A k \in 1..Len(candidates) :
            (\E j \in 1..Len(list_urls) : list_urls[j].url = candidates[k].url)
                <=> /\ ~candidates[k].probe.error
                    /\ candidates[k].probe.status = 200
                    /\ candidates[k].probe.content_type = "application/pdf"

\* C21: get_url_responses returns a list as long as its input whose entry i is
\* the outcome of the probe of URL i: an error while probing a URL is recorded
\* in the entry of that URL, does not raise out of the batch and leaves the
\* entry of every other URL as its own probe made it.
C21_ResponsesAlignedByIndex ==
    fpc = "done" =>
        /\ Len(url_responses) = Len(candidates)
        /\ \A i \in 1..Len(candidates) :
              /\ url_responses[i] = "Exception" <=> candidates[i].probe.error
              /\ url_responses[i] = "True" <=>
                    /\ ~candidates[i].probe.error
                    /\ candidates[i].probe.status = 200
                    /\ candidates[i].probe.content_type = "application/pdf"

C21_Witness ==
    /\ fpc = "done"
    /\ \E i, j \in 1..Len(candidates) :
          /\ i < j
          /\ candidates[i].probe.error
          /\ url_responses[j] = "True"

(***************************************************************************)
(* Claims on DuckDuckGoSearch.search (checked under SpecDuckDuckGo)        *)
(***************************************************************************)

\* C22: a search(query) call makes at most two attempts; a second attempt is
\* made only after the first raised and uses a User-Agent different from the
\* first; after a first attempt that succeeded the call ends without a second
\* one, and when both attempts raised the call returns the empty list.
C22_AtMostOneRetry ==
    /\ Len(attempts) <= 2
    /\ Len(attempts) = 2 => attempts[1].raised /\ attempts[2].ua # attempts[1].ua
    /\ (Len(attempts) >= 1 /\ ~attempts[1].raised) => qpc = "done" /\ Len(attempts) = 1
    /\ (Len(attempts) = 2 /\ attempts[2].raised) =>
          qpc = "done" /\ ddg_results = <<SearchReturns(<<>>)>>

C22_Witness ==
    /\ qpc = "done"
    /\ Len(attempts) = 2
    /\ attempts[2].raised

(***************************************************************************)
(* Claims on _get_claim_value (checked under SpecClaims)                   *)
(***************************************************************************)

\* The years of the claims that carry a usable date: a qualifier that parses
\* to a year other than 0.
UsableDates == {claims[i].time : i \in 1..Len(claims)} \ {None, 0}

\* C23: for an amount-valued property with several claims, _get_claim_value
\* returns the amount and the year of the claim with the greatest year among
\* the claims that carry a usable date, and the amount of the first claim with
\* a null date when no claim carries a usable date.
C23_LatestDatedClaim ==
    (kpc = "done" /\ claims # <<>>) =>
        IF UsableDates # {}
        THEN /\ claim_value[1].date = SetMax(UsableDates)
             /\ \E i \in 1..Len(claims) :
                   /\ claims[i].time = SetMax(UsableDates)
                   /\ claims[i].amount = claim_value[1].amount
        ELSE claim_value[1] = ClaimValue(claims[1].amount, None)

C23_Witness ==
    /\ kpc = "done"
    /\ Len(claims) >= 2
    /\ UsableDates # {}
    /\ claims[1].time # SetMax(UsableDates)
    /\ claim_value[1].amount # claims[1].amount


(***************************************************************************)
(* Claims on merge_extracted_infos with facts of several entities          *)
(* (checked under SpecMergeEntities)                                       *)
(***************************************************************************)

\* The input facts of a variable, of every entity, in input order.
InputOfVariable(var) == SelectSeq(MergeInput, LAMBDA f : f.variable = var)

\* The fact that remains when the facts of a list are reconciled one after
\* the other by year: a later fact wins over the one kept so far when its year
\* is set and the kept year is null or smaller.
RECURSIVE Reconciled(_, _)
Reconciled(kept, facts) ==
    IF facts = <<>> THEN kept
    ELSE Reconciled(IF ShouldReplace(Head(facts), kept) THEN Head(facts) ELSE kept,
                    Tail(facts))

\* C25: merge_extracted_infos keys the stored facts by variable only: when the
\* input lists hold facts of several entity ids, the output has at most one
\* fact per variable, and the fact of a variable is the one that remains when
\* all the input facts of that variable, whatever their entity, are reconciled
\* by year and input order (with dated facts only: the first of those with the
\* greatest year).
C25_KeyedByVariableOnly ==
    mpc = "done" =>
        /\ \A i, j \in 1..Len(mresult) :
              mresult[i].variable = mresult[j].variable => i = j
        /\ \A var \in MergeVariables :
              LET facts == InputOfVariable(var) IN
              facts # <<>> =>
                 /\ Stored(mresult, var) = Reconciled(Head(facts), Tail(facts))
                 /\ (\A k \in 1..Len(facts) : facts[k].year # None) =>
                       /\ Stored(mresult, var).year
                             = SetMax({facts[k].year : k \in 1..Len(facts)})
                       /\ \A k \in 1..Len(facts) :
                             facts[k].year = Stored(mresult, var).year
                                => facts[k].value >= Stored(mresult, var).value

\* C25 witness: the call has returned, for a variable, the newer fact of one
\* entity although a fact of another entity came first for that variable.
C25_Witness ==
    /\ mpc = "done"
    /\ \E var \in MergeVariables :
          LET facts == InputOfVariable(var) IN
          /\ Len(facts) >= 2
          /\ facts[1].mne_id = 1
          /\ Stored(mresult, var).mne_id = 2
          /\ Stored(mresult, var).year = 2024
          /\ facts[1].year = 2023
====
